---- MODULE Spec2Model ----
(***************************************************************************)
(* A model of otl (src/src/main.rs): the decoder of the binary outline     *)
(* format (parse_otl), the tree builder (build_tree, push_child), the      *)
(* renderers (render_plain_all, render_canon), the encoder                 *)
(* (serialize_tree_to_otl), the validator (validate) and the diff engine   *)
(* (diff_two_recs, diff_mode).                                             *)
(*                                                                         *)
(* Bytes are the integers 0..255, strings are sequences of code points,    *)
(* Option<T> is a sequence of length at most one (<<>> is None, <<x>> is    *)
(* Some(x)).  Offsets into a buffer keep the source's 0-based numbering:   *)
(* At(buf, k) is buf[k] of the source.                                     *)
(***************************************************************************)
EXTENDS Integers, Sequences, FiniteSets, TLC

VARIABLES
    buf,        \* parse_otl: the input buffer
    note_enc,   \* parse_otl: the note encoding selector
    i,          \* parse_otl: the read position (0-based)
    out,        \* parse_otl: the records emitted so far
    pres,       \* parse_otl: "start", "loop", "ok", "panic" or the failure message
    recs,       \* build_tree, validate, render_canon: the records
    ri,         \* build_tree: the number of records processed
    root,       \* build_tree: the synthetic root
    path,       \* build_tree: child indexes from the root to the current node
    level,      \* build_tree: the running level
    tres,       \* build_tree: "idle", "loop", "done" or "panic"
    placed,     \* build_tree: per processed record, the path after its push_child
                \* and the number of synthetic nodes of the tree before it
    assume_child_bit,  \* validate: the hypothesis toggle
    vi,         \* validate: the index of the record checked next (0-based)
    warnings,   \* validate: the warnings printed so far
    vres,       \* validate: "idle", "loop" or "done"
    show_cursor,  \* render_canon, diff_mode: the show-selection toggle
    ci,         \* render_canon: the number of records rendered
    canon,      \* render_canon: the output string so far
    cres,       \* render_canon: "idle", "loop" or "done"
    prev,       \* diff_mode: the previous records
    curr,       \* diff_mode: the current records
    di,         \* diff_mode: the number of current records processed
    used_prev,  \* diff_mode: which previous records are matched
    report,     \* diff_mode: the lines of the report so far
    matches,    \* diff_mode: match_idx of each processed current record
    emitted,    \* diff_mode: the lines each processed current record added
    dres,       \* diff_mode: "idle", "loop" or "done"
    rt_recs,    \* roundtrip test: the arguments of the rec_bytes calls
    rt_enc,     \* roundtrip test: the note encoding
    rt_stage,   \* roundtrip test: "idle", "start" or "done"
    rt_res,     \* roundtrip test: the outcome of the run
    m_tree,     \* main: the forest build_tree returned
    plain_text, \* main: the --text switch
    printed,    \* main: the rendering printed
    mres,       \* main: "idle", "parsed", "built" or "printed"
    e_nodes,    \* serialize_tree_to_otl: the forest to encode
    e_enc,      \* serialize_tree_to_otl: the note encoding
    e_flats,    \* serialize_tree_to_otl: the Flat list of the walk
    buf2,       \* serialize_tree_to_otl: the bytes written
    recs2,      \* the records decoded from buf2
    eres        \* encoder: "idle", "start", "walked", "written", "decoded" or the failure

pvars == <<buf, note_enc, i, out, pres>>
tvars == <<ri, root, path, level, tres, placed>>
vvars == <<assume_child_bit, vi, warnings, vres>>
cvars == <<show_cursor, ci, canon, cres>>
dvars == <<prev, curr, di, used_prev, report, matches, emitted, dres>>
rvars == <<rt_recs, rt_enc, rt_stage, rt_res>>
mvars == <<m_tree, plain_text, printed, mres>>
evars == <<e_nodes, e_enc, e_flats, buf2, recs2, eres>>

vars == <<buf, note_enc, i, out, pres, recs, ri, root, path, level, tres, placed,
          assume_child_bit, vi, warnings, vres, show_cursor, ci, canon, cres,
          prev, curr, di, used_prev, report, matches, emitted, dres,
          rt_recs, rt_enc, rt_stage, rt_res, m_tree, plain_text, printed, mres,
          e_nodes, e_enc, e_flats, buf2, recs2, eres>>

(***************************************************************************)
(* Program constants.                                                      *)
(***************************************************************************)
A_NOTE == 128
A_CURSOR == 32
A_SIBFOLLOWS == 8
A_HASKIDS == 4
M_EXPANDED == 255
M_COLLAPSED == 254
MAX_TEXTLEN == 1048576
MAX_NOTELEN == 65535
MAGIC == <<26, 147, 26>>
PREAMBLE == <<255, 0, 255, 255, 255, 255>>

(***************************************************************************)
(* Bounds of the model.                                                    *)
(***************************************************************************)
MaxRawLen == 5
MaxChunks == 2
MaxRecs == 4
MaxDelta == 2
MaxVRecs == 3
MaxCanonRecs == 2
MaxDiffRecs == 3

(***************************************************************************)
(* Helpers: Option, bits, two's complement, 0-based indexing.              *)
(***************************************************************************)
None == <<>>
Some(x) == <<x>>
IsSome(o) == Len(o) = 1
Unwrap(o) == o[1]

\* (a & mask) != 0 for a one-bit mask
HasBit(a, mask) == (a \div mask) % 2 = 1

\* buf[k] of the source (0-based)
At(b, k) == b[k + 1]

\* &buf[lo..hi] of the source (0-based, hi exclusive)
Slice(b, lo, hi) == SubSeq(b, lo + 1, hi)

\* u16::from_le_bytes
U16le(b0, b1) == b0 + 256 * b1

\* i16::from_le_bytes
I16le(b0, b1) == LET u == U16le(b0, b1) IN IF u >= 32768 THEN u - 65536 ELSE u

\* the concatenation of the sequences ss[lo..hi], halving the range
RECURSIVE Flatten(_, _, _)
Flatten(ss, lo, hi) ==
    IF lo > hi THEN <<>>
    ELSE IF lo = hi THEN ss[lo]
    ELSE LET mid == (lo + hi) \div 2
         IN  Flatten(ss, lo, mid) \o Flatten(ss, mid + 1, hi)

Indices(s) == [j \in 1..Len(s) |-> j]

(***************************************************************************)
(* String::from_utf8_lossy: each maximal well-formed prefix of a scalar    *)
(* value that is not a whole scalar value becomes U+FFFD.  A chunk starts  *)
(* at every byte that is not a continuation byte taken by one of the       *)
(* three bytes before it.                                                  *)
(***************************************************************************)
REPLACEMENT == 65533

IsCont(b) == b >= 128 /\ b <= 191

Utf8Width(b) ==
    IF b < 128 THEN 1
    ELSE IF b >= 194 /\ b <= 223 THEN 2
    ELSE IF b >= 224 /\ b <= 239 THEN 3
    ELSE IF b >= 240 /\ b <= 244 THEN 4
    ELSE 0

Utf8SecondOk(b0, b1) ==
    IF b0 = 224 THEN b1 >= 160 /\ b1 <= 191
    ELSE IF b0 = 237 THEN b1 >= 128 /\ b1 <= 159
    ELSE IF b0 = 240 THEN b1 >= 144 /\ b1 <= 191
    ELSE IF b0 = 244 THEN b1 >= 128 /\ b1 <= 143
    ELSE IsCont(b1)

\* the number of bytes of the chunk that starts at s[l]
Utf8Extent(s, l) ==
    LET w == Utf8Width(s[l])
        n == Len(s)
    IN  IF w <= 1 THEN 1
        ELSE IF l + 1 > n \/ ~Utf8SecondOk(s[l], s[l + 1]) THEN 1
        ELSE IF w = 2 THEN 2
        ELSE IF l + 2 > n \/ ~IsCont(s[l + 2]) THEN 2
        ELSE IF w = 3 THEN 3
        ELSE IF l + 3 > n \/ ~IsCont(s[l + 3]) THEN 3
        ELSE 4

Utf8IsStart(s, j) ==
    \/ ~IsCont(s[j])
    \/ ~\E l \in (IF j > 3 THEN j - 3 ELSE 1)..(j - 1) :
            Utf8Width(s[l]) >= 2 /\ l + Utf8Extent(s, l) > j

Utf8CharAt(s, l) ==
    LET w == Utf8Width(s[l])
    IN  IF w = 0 \/ Utf8Extent(s, l) # w THEN REPLACEMENT
        ELSE IF w = 1 THEN s[l]
        ELSE IF w = 2 THEN (s[l] % 32) * 64 + (s[l + 1] % 64)
        ELSE IF w = 3 THEN (s[l] % 16) * 4096 + (s[l + 1] % 64) * 64 + (s[l + 2] % 64)
        ELSE (s[l] % 8) * 262144 + (s[l + 1] % 64) * 4096
                 + (s[l + 2] % 64) * 64 + (s[l + 3] % 64)

from_utf8_lossy(bytes) ==
    LET IsStart(j) == Utf8IsStart(bytes, j)
        starts == SelectSeq(Indices(bytes), IsStart)
    IN  [m \in 1..Len(starts) |-> Utf8CharAt(bytes, starts[m])]

\* str::as_bytes: the UTF-8 encoding of a string
Utf8Encode(c) ==
    IF c < 128 THEN <<c>>
    ELSE IF c < 2048 THEN <<192 + (c \div 64), 128 + (c % 64)>>
    ELSE IF c < 65536 THEN <<224 + (c \div 4096), 128 + ((c \div 64) % 64), 128 + (c % 64)>>
    ELSE <<240 + (c \div 262144), 128 + ((c \div 4096) % 64),
           128 + ((c \div 64) % 64), 128 + (c % 64)>>

as_bytes(str) == Flatten([m \in 1..Len(str) |-> Utf8Encode(str[m])], 1, Len(str))

(***************************************************************************)
(* decode_note, decode_heading                                             *)
(***************************************************************************)
decode_note(bytes, enc) ==
    CASE enc = "utf8"   -> from_utf8_lossy(bytes)
      [] enc = "latin1" -> [m \in 1..Len(bytes) |-> bytes[m]]
      [] enc = "ascii"  -> [m \in 1..Len(bytes) |-> bytes[m] % 128]
      [] OTHER          -> from_utf8_lossy(bytes)

decode_heading(bytes) ==
    Flatten([m \in 1..Len(bytes) |->
                IF bytes[m] >= 128 THEN <<bytes[m] % 128, 32>> ELSE <<bytes[m]>>],
            1, Len(bytes))
(***************************************************************************)
(* parse_otl.  ParseIter is one iteration of the while loop at read        *)
(* position i0 < Len(b): its kind is "break" (an end sentinel), "err" (a    *)
(* classified failure, msg), "stray" (a stray 0xFF, the loop continues at  *)
(* i), "rec" (a record is pushed, the loop continues at i) or "panic" (an  *)
(* index outside the buffer).                                              *)
(***************************************************************************)
Flags(attr) ==
    [ has_note         |-> HasBit(attr, A_NOTE),
      selected         |-> HasBit(attr, A_CURSOR),
      has_next_sibling |-> HasBit(attr, A_SIBFOLLOWS),
      has_child        |-> HasBit(attr, A_HASKIDS) ]

\* the first k >= i0 with buf[k] = 0xff, or Len(b) when there is none
FindTerminator(b, i0) ==
    IF \E k \in i0..(Len(b) - 1) : At(b, k) = 255
    THEN CHOOSE k \in i0..(Len(b) - 1) :
             At(b, k) = 255 /\ \A j \in i0..(k - 1) : At(b, j) # 255
    ELSE Len(b)

\* the check that asks for the terminator, attr and the two marker bytes only
HeaderTruncated_FourAvailable(b, k) == k + 3 >= Len(b)

\* the bounds check of "must have at least 4 bytes after the terminator"
HeaderTruncated(b, k) == k + 4 >= Len(b)

\* the skip that leaves the read position at the stray terminator
StrayNext_Stay(k) == k

\* i = k + 1: the read position after a stray terminator at k
StrayNext(k) == k + 1

Outcome(kind, msg, inew, rec) == [kind |-> kind, msg |-> msg, i |-> inew, rec |-> rec]

\* the optional note of a record whose delta ends at i1 - 1
ParseNote(b, enc, i1, attr) ==
    IF ~HasBit(attr, A_NOTE)
    THEN [err |-> "", i |-> i1, note |-> None, off_note_len |-> None,
          off_note |-> None, note_len |-> 0]
    ELSE IF i1 + 2 > Len(b)
    THEN [err |-> "truncated note length", i |-> i1, note |-> None,
          off_note_len |-> None, off_note |-> None, note_len |-> 0]
    ELSE LET nlen == U16le(At(b, i1), At(b, i1 + 1))
             i2 == i1 + 2
         IN  IF nlen > MAX_NOTELEN
             THEN [err |-> "note too large for u16 length", i |-> i1, note |-> None,
                   off_note_len |-> Some(i1), off_note |-> None, note_len |-> 0]
             ELSE IF i2 + nlen > Len(b)
             THEN [err |-> "truncated note bytes", i |-> i2, note |-> None,
                   off_note_len |-> Some(i1), off_note |-> None, note_len |-> 0]
             ELSE [err |-> "", i |-> i2 + nlen,
                   note |-> Some(decode_note(Slice(b, i2, i2 + nlen), enc)),
                   off_note_len |-> Some(i1), off_note |-> Some(i2), note_len |-> nlen]

ParseIter(b, enc, i0) ==
    LET n == Len(b)
        k == FindTerminator(b, i0)
    IN  IF i0 = n - 1 /\ At(b, i0) = 26 THEN Outcome("break", "", i0, None)
        ELSE IF i0 + 2 < n /\ At(b, i0) = 255 /\ At(b, i0 + 1) = 255 /\ At(b, i0 + 2) = 26
        THEN Outcome("break", "", i0, None)
        ELSE IF k >= n THEN Outcome("err", "unterminated heading text", i0, None)
        ELSE IF HeaderTruncated(b, k) THEN Outcome("err", "truncated record header", i0, None)
        ELSE LET attr == At(b, k + 1)
                 mark1 == At(b, k + 2)
                 mark2 == At(b, k + 3)
             IN  IF mark2 # 255 \/ (mark1 # M_EXPANDED /\ mark1 # M_COLLAPSED)
                 THEN Outcome("stray", "", StrayNext(k), None)
                 ELSE IF k + 5 >= n THEN Outcome("panic", "index out of bounds", i0, None)
                 ELSE IF k - i0 > MAX_TEXTLEN THEN Outcome("err", "heading too large", i0, None)
                 ELSE LET nt == ParseNote(b, enc, k + 6, attr)
                          marker_u16 == U16le(mark1, mark2)
                      IN  IF nt.err # "" THEN Outcome("err", nt.err, nt.i, None)
                          ELSE Outcome("rec", "", nt.i,
                                 Some([ text           |-> decode_heading(Slice(b, i0, k)),
                                        delta          |-> I16le(At(b, k + 4), At(b, k + 5)),
                                        attr           |-> attr,
                                        marker_u16     |-> marker_u16,
                                        collapsed      |-> marker_u16 = 65534,
                                        note           |-> nt.note,
                                        flags          |-> Flags(attr),
                                        off_text       |-> i0,
                                        len_text       |-> k - i0,
                                        off_terminator |-> k,
                                        off_attr       |-> k + 1,
                                        off_marker     |-> k + 2,
                                        off_delta      |-> k + 4,
                                        off_note_len   |-> nt.off_note_len,
                                        off_note       |-> nt.off_note,
                                        note_len       |-> nt.note_len ]))

\* the read position at the head of the loop: the magic and the preamble are skipped
SkipPrefix(b) ==
    LET i1 == IF Len(b) >= 3 /\ Slice(b, 0, 3) = MAGIC THEN 3 ELSE 0
    IN  IF Len(b) >= i1 + 6 /\ Slice(b, i1, i1 + 6) = PREAMBLE THEN i1 + 6 ELSE i1

\* parse_otl as a function: [res |-> "ok", recs |-> the records] or [res |-> the failure]
RECURSIVE ParseLoop(_, _, _, _)
ParseLoop(b, enc, i0, acc) ==
    IF i0 >= Len(b) THEN [res |-> "ok", recs |-> acc]
    ELSE LET o == ParseIter(b, enc, i0)
         IN  CASE o.kind = "break" -> [res |-> "ok", recs |-> acc]
               [] o.kind = "err"   -> [res |-> o.msg, recs |-> <<>>]
               [] o.kind = "panic" -> [res |-> "panic", recs |-> <<>>]
               [] o.kind = "stray" -> ParseLoop(b, enc, o.i, acc)
               [] o.kind = "rec"   -> ParseLoop(b, enc, o.i, Append(acc, Unwrap(o.rec)))

parse_otl(b, enc) == ParseLoop(b, enc, SkipPrefix(b), <<>>)

(***************************************************************************)
(* build_tree and push_child.  A Node is a record whose children field is  *)
(* the sequence of its child Nodes; a path holds 0-based child indexes.    *)
(***************************************************************************)
NoFlags == [has_note |-> FALSE, selected |-> FALSE, has_next_sibling |-> FALSE,
            has_child |-> FALSE]

\* the synthetic root and the filler ("dummy") node
SyntheticNode ==
    [text |-> <<>>, note |-> None, collapsed |-> FALSE, flags |-> NoFlags,
     synthetic |-> TRUE, children |-> <<>>]

NodeOfRec(r) ==
    [text |-> r.text, note |-> r.note, collapsed |-> r.collapsed, flags |-> r.flags,
     synthetic |-> FALSE, children |-> <<>>]

\* every index of the path addresses an existing child (children.get_mut(idx))
RECURSIVE PathInBounds(_, _)
PathInBounds(node, p) ==
    \/ p = <<>>
    \/ /\ Head(p) < Len(node.children)
       /\ PathInBounds(node.children[Head(p) + 1], Tail(p))

RECURSIVE NodeAt(_, _)
NodeAt(node, p) ==
    IF p = <<>> THEN node ELSE NodeAt(node.children[Head(p) + 1], Tail(p))

RECURSIVE PushAt(_, _, _)
PushAt(node, p, child) ==
    IF p = <<>>
    THEN [node EXCEPT !.children = Append(@, child)]
    ELSE [node EXCEPT !.children[Head(p) + 1] = PushAt(@, Tail(p), child)]

\* push_child that makes the length of the child list, not the index of the
\* new child, the current position
push_child_OffByOne(rt, p, child) ==
    IF ~PathInBounds(rt, p)
    THEN [ok |-> FALSE, root |-> rt, path |-> p]
    ELSE LET rt2 == PushAt(rt, p, child)
             new_idx == Len(NodeAt(rt2, p).children)
         IN  [ok |-> TRUE, root |-> rt2, path |-> Append(p, new_idx)]

\* push_child: ok is FALSE when the expect() on the path aborts
push_child(rt, p, child) ==
    IF ~PathInBounds(rt, p)
    THEN [ok |-> FALSE, root |-> rt, path |-> p]
    ELSE LET rt2 == PushAt(rt, p, child)
             new_idx == Len(NodeAt(rt2, p).children) - 1
         IN  [ok |-> TRUE, root |-> rt2, path |-> Append(p, new_idx)]

\* the filler loop stopping one level early
RECURSIVE PushFillers_OneShort(_, _, _)
PushFillers_OneShort(rt, p, lvl) ==
    IF Len(p) + 1 >= lvl THEN [ok |-> TRUE, root |-> rt, path |-> p]
    ELSE LET st == push_child(rt, p, SyntheticNode)
         IN  IF st.ok THEN PushFillers_OneShort(st.root, st.path, lvl) ELSE st

\* while (path.len() as i32) < level { push_child(&mut root, &mut path, dummy) }
RECURSIVE PushFillers(_, _, _)
PushFillers(rt, p, lvl) ==
    IF Len(p) >= lvl THEN [ok |-> TRUE, root |-> rt, path |-> p]
    ELSE LET st == push_child(rt, p, SyntheticNode)
         IN  IF st.ok THEN PushFillers(st.root, st.path, lvl) ELSE st

\* the level without its clamp
NextLevel_NoClamp(lvl, delta) == lvl + delta

\* level += r.delta as i32; if level < 0 { level = 0 }
NextLevel(lvl, delta) == IF lvl + delta < 0 THEN 0 ELSE lvl + delta

\* while (path.len() as i32) > level { path.pop() }
Shrink(p, lvl) == IF Len(p) > lvl THEN SubSeq(p, 1, lvl) ELSE p

\* the body of the for loop of build_tree for record r
BuildRecord(rt, p, lvl, r) ==
    LET lvl2 == NextLevel(lvl, r.delta)
        f == PushFillers(rt, Shrink(p, lvl2), lvl2)
        st == IF f.ok THEN push_child(f.root, f.path, NodeOfRec(r)) ELSE f
    IN  [ok |-> st.ok, root |-> st.root, path |-> st.path, level |-> lvl2]

RECURSIVE BuildLoop(_, _, _, _, _)
BuildLoop(rs, j, rt, p, lvl) ==
    IF j > Len(rs) THEN rt.children
    ELSE LET st == BuildRecord(rt, p, lvl, rs[j])
         IN  IF st.ok THEN BuildLoop(rs, j + 1, st.root, st.path, st.level)
             ELSE <<"panic">>

build_tree(rs) == BuildLoop(rs, 1, SyntheticNode, <<>>, 0)

\* the number of synthetic nodes among the first c nodes of a child list and
\* below them
RECURSIVE CountSyntheticIn(_, _)
CountSyntheticIn(children, c) ==
    IF c = 0 THEN 0
    ELSE CountSyntheticIn(children, c - 1)
         + (IF children[c].synthetic THEN 1 ELSE 0)
         + CountSyntheticIn(children[c].children, Len(children[c].children))

\* the number of synthetic nodes below a node
CountSynthetic(node) == CountSyntheticIn(node.children, Len(node.children))

(***************************************************************************)
(* The tree builder as a state machine: one action per record.             *)
(***************************************************************************)
BuildStep ==
    /\ tres = "loop"
    /\ ri < Len(recs)
    /\ LET st == BuildRecord(root, path, level, recs[ri + 1])
       IN  /\ root' = st.root
           /\ path' = st.path
           /\ level' = st.level
           /\ tres' = IF st.ok THEN "loop" ELSE "panic"
           /\ placed' = Append(placed, [path |-> st.path,
                                        synthetic_before |-> CountSynthetic(root)])
    /\ ri' = ri + 1
    /\ UNCHANGED <<recs, pvars, vvars, cvars, dvars, rvars, mvars, evars>>

BuildReturn ==
    /\ tres = "loop"
    /\ ri = Len(recs)
    /\ tres' = "done"
    /\ UNCHANGED <<recs, ri, root, path, level, placed>>
    /\ UNCHANGED <<pvars, vvars, cvars, dvars, rvars, mvars, evars>>

IdleParse ==
    /\ buf = <<>>
    /\ note_enc = "latin1"
    /\ i = 0
    /\ out = <<>>
    /\ pres = "idle"

IdleTree ==
    /\ ri = 0
    /\ root = SyntheticNode
    /\ path = <<>>
    /\ level = 0
    /\ tres = "idle"
    /\ placed = <<>>

(***************************************************************************)
(* validate.  A warning is a record: kind "sibling" (bit, expected),       *)
(* "child" (bit, expected) or "unknown" (the unknown bits), with the       *)
(* 0-based record index and the offset of the attribute byte.              *)
(***************************************************************************)
\* the levels vector: lvl += r.delta as i32; if lvl < 0 { lvl = 0 }; push
RECURSIVE LevelsFrom(_, _, _)
LevelsFrom(rs, j, lvl) ==
    IF j > Len(rs) THEN <<>>
    ELSE LET l2 == IF lvl + rs[j].delta < 0 THEN 0 ELSE lvl + rs[j].delta
         IN  <<l2>> \o LevelsFrom(rs, j + 1, l2)

Levels(rs) == LevelsFrom(rs, 1, 0)

\* the scan without its break at a lower level
RECURSIVE HasLaterSibling_NoBreak(_, _, _)
HasLaterSibling_NoBreak(levels, my, j) ==
    IF j > Len(levels) THEN FALSE
    ELSE IF levels[j] = my THEN TRUE
    ELSE HasLaterSibling_NoBreak(levels, my, j + 1)

\* for &level in levels.iter().skip(i + 1): j is the 1-based position scanned
RECURSIVE HasLaterSibling(_, _, _)
HasLaterSibling(levels, my, j) ==
    IF j > Len(levels) THEN FALSE
    ELSE IF levels[j] < my THEN FALSE
    ELSE IF levels[j] = my THEN TRUE
    ELSE HasLaterSibling(levels, my, j + 1)

\* the known bits without the selection bit
UnknownBits_CursorUnknown(attr) ==
    attr - (IF HasBit(attr, A_NOTE) THEN A_NOTE ELSE 0)
         - (IF HasBit(attr, A_SIBFOLLOWS) THEN A_SIBFOLLOWS ELSE 0)
         - (IF HasBit(attr, A_HASKIDS) THEN A_HASKIDS ELSE 0)

\* recs[i].attr & !known, known = A_NOTE | A_CURSOR | A_SIBFOLLOWS | A_HASKIDS
UnknownBits(attr) ==
    attr - (IF HasBit(attr, A_NOTE) THEN A_NOTE ELSE 0)
         - (IF HasBit(attr, A_CURSOR) THEN A_CURSOR ELSE 0)
         - (IF HasBit(attr, A_SIBFOLLOWS) THEN A_SIBFOLLOWS ELSE 0)
         - (IF HasBit(attr, A_HASKIDS) THEN A_HASKIDS ELSE 0)

\* the next record taken for a child only when it is exactly one level deeper
HasChildStruct_ExactlyOne(levels, i0) ==
    i0 + 1 < Len(levels) /\ levels[i0 + 2] = levels[i0 + 1] + 1

\* i + 1 < recs.len() && levels[i + 1] > my (i0 is 0-based)
HasChildStruct(levels, i0) ==
    i0 + 1 < Len(levels) /\ levels[i0 + 2] > levels[i0 + 1]

\* the warnings of one iteration of the loop over the records (i0 is 0-based)
ValidateRecord(rs, acb, i0) ==
    LET levels == Levels(rs)
        my == levels[i0 + 1]
        r == rs[i0 + 1]
        has_later_sibling == HasLaterSibling(levels, my, i0 + 2)
        bit_sib == HasBit(r.attr, A_SIBFOLLOWS)
        has_child_struct == HasChildStruct(levels, i0)
        bit_child == HasBit(r.attr, A_HASKIDS)
        unknown == UnknownBits(r.attr)
    IN  (IF has_later_sibling # bit_sib
         THEN <<[kind |-> "sibling", idx |-> i0, attr |-> bit_sib,
                 expected |-> has_later_sibling, off |-> r.off_attr]>>
         ELSE <<>>)
        \o (IF acb /\ has_child_struct # bit_child
            THEN <<[kind |-> "child", idx |-> i0, attr |-> bit_child,
                    expected |-> has_child_struct, off |-> r.off_attr]>>
            ELSE <<>>)
        \o (IF unknown # 0
            THEN <<[kind |-> "unknown", idx |-> i0, bits |-> unknown, off |-> r.off_attr]>>
            ELSE <<>>)

\* validate as a function: everything it prints
validate(rs, acb) ==
    Flatten([j \in 1..Len(rs) |-> ValidateRecord(rs, acb, j - 1)], 1, Len(rs))

ValidateStep ==
    /\ vres = "loop"
    /\ vi < Len(recs)
    /\ warnings' = warnings \o ValidateRecord(recs, assume_child_bit, vi)
    /\ vi' = vi + 1
    /\ UNCHANGED <<assume_child_bit, vres>>
    /\ UNCHANGED <<recs, pvars, tvars, cvars, dvars, rvars, mvars, evars>>

ValidateReturn ==
    /\ vres = "loop"
    /\ vi = Len(recs)
    /\ vres' = "done"
    /\ UNCHANGED <<assume_child_bit, vi, warnings>>
    /\ UNCHANGED <<recs, pvars, tvars, cvars, dvars, rvars, mvars, evars>>

IdleValidate ==
    /\ assume_child_bit = FALSE
    /\ vi = 0
    /\ warnings = <<>>
    /\ vres = "idle"

(***************************************************************************)
(* render_canon and its field formatters.  Output strings are sequences of *)
(* code points; the literals are spelled out as such.                      *)
(***************************************************************************)
LF == 10
CR == 13

\* one lower-case hex digit
HexDigit(d) == IF d < 10 THEN 48 + d ELSE 87 + d

\* format!("{:04x}", n as u16)
Hex04(n) ==
    LET u == n % 65536
    IN  <<HexDigit(u \div 4096), HexDigit((u \div 256) % 16),
          HexDigit((u \div 16) % 16), HexDigit(u % 16)>>

\* the character of one bit of fmt_attr_bits, <<>> for '\0'
AttrBitChar(attr, mask, show) ==
    LET set == HasBit(attr, mask)
    IN  CASE mask = A_NOTE       -> IF set THEN <<78>> ELSE <<110>>
          [] mask = A_CURSOR     -> IF ~show THEN <<>> ELSE IF set THEN <<67>> ELSE <<99>>
          [] mask = A_SIBFOLLOWS -> IF set THEN <<83>> ELSE <<115>>
          [] mask = A_HASKIDS    -> IF set THEN <<75>> ELSE <<107>>
          [] OTHER               -> IF set THEN <<49>> ELSE <<>>

\* fmt_attr_bits: bits 7..0
fmt_attr_bits(attr, show) ==
    AttrBitChar(attr, 128, show) \o AttrBitChar(attr, 64, show)
    \o AttrBitChar(attr, 32, show) \o AttrBitChar(attr, 16, show)
    \o AttrBitChar(attr, 8, show) \o AttrBitChar(attr, 4, show)
    \o AttrBitChar(attr, 2, show) \o AttrBitChar(attr, 1, show)

\* mark_field: "-1:+", "-2:-" or "0x%04x"
mark_field(u) ==
    CASE u = 65535 -> <<45, 49, 58, 43>>
      [] u = 65534 -> <<45, 50, 58, 45>>
      [] OTHER     -> <<48, 120>> \o Hex04(u)

\* delta_field: a signed digit within -9..9, else the hex of the bit pattern
delta_field(d) ==
    IF d >= -9 /\ d <= 9
    THEN IF d < 0 THEN <<45, 48 - d>> ELSE <<43, 48 + d>>
    ELSE <<48, 120>> \o Hex04(IF d < 0 THEN d + 65536 ELSE d)

\* escape_headline: a backslash before every backslash and quote
escape_headline(str) ==
    Flatten([m \in 1..Len(str) |->
                IF str[m] = 92 \/ str[m] = 34 THEN <<92, str[m]>> ELSE <<str[m]>>],
            1, Len(str))

\* str::replace left as the identity
ReplaceCrlf_None(str) == str

\* str::replace("\r\n", "\n"): the CR of every CR LF pair is dropped
ReplaceCrlf(str) ==
    LET Kept(j) == ~(str[j] = CR /\ j < Len(str) /\ str[j + 1] = LF)
        kept == SelectSeq(Indices(str), Kept)
    IN  [m \in 1..Len(kept) |-> str[kept[m]]]

\* the header line of render_canon
CanonHeader(r, show) ==
    fmt_attr_bits(r.attr, show) \o <<32, 109, 97, 114, 107, 61>> \o mark_field(r.marker_u16)
    \o <<32, 100, 101, 108, 116, 97, 61>> \o delta_field(r.delta)
    \o <<32, 116, 101, 120, 116, 76, 101, 110, 61>> \o Hex04(r.len_text)
    \o <<32, 34>> \o escape_headline(r.text) \o <<34, LF>>

\* the note lines of render_canon
CanonNote(r) ==
    IF ~r.flags.has_note THEN <<>>
    ELSE LET note_norm == ReplaceCrlf(IF IsSome(r.note) THEN Unwrap(r.note) ELSE <<>>)
         IN  <<110, 111, 116, 101, 76, 101, 110, 61>> \o Hex04(r.note_len) \o <<LF>>
             \o <<110, 111, 116, 101>> \o <<LF>>
             \o note_norm
             \o (IF Len(note_norm) = 0 \/ note_norm[Len(note_norm)] # LF THEN <<LF>> ELSE <<>>)
             \o <<47, 110, 111, 116, 101>> \o <<LF>>

\* render_canon as a function
render_canon(rs, show) ==
    Flatten([j \in 1..Len(rs) |-> CanonHeader(rs[j], show) \o CanonNote(rs[j])], 1, Len(rs))

CanonStep ==
    /\ cres = "loop"
    /\ ci < Len(recs)
    /\ canon' = canon \o CanonHeader(recs[ci + 1], show_cursor) \o CanonNote(recs[ci + 1])
    /\ ci' = ci + 1
    /\ UNCHANGED <<show_cursor, cres>>
    /\ UNCHANGED <<recs, pvars, tvars, vvars, dvars, rvars, mvars, evars>>

CanonReturn ==
    /\ cres = "loop"
    /\ ci = Len(recs)
    /\ cres' = "done"
    /\ UNCHANGED <<show_cursor, ci, canon>>
    /\ UNCHANGED <<recs, pvars, tvars, vvars, dvars, rvars, mvars, evars>>

IdleCanon ==
    /\ show_cursor = FALSE
    /\ ci = 0
    /\ canon = <<>>
    /\ cres = "idle"

(***************************************************************************)
(* diff_two_recs and diff_mode.  The report is kept as the sequence of its *)
(* lines, each without the line break that ends it.                        *)
(***************************************************************************)
NoteText(r) == IF IsSome(r.note) THEN Unwrap(r.note) ELSE <<>>

\* diff_two_recs without the comparison of the delta
diff_two_recs_NoDelta(p, c, show) ==
    (IF p.attr # c.attr
     THEN <<<<32, 32, 97, 116, 116, 114, 58, 32>> \o fmt_attr_bits(p.attr, show)
            \o <<32, 45, 62, 32>> \o fmt_attr_bits(c.attr, show)>>
     ELSE <<>>)
    \o (IF p.marker_u16 # c.marker_u16
        THEN <<<<32, 32, 109, 97, 114, 107, 58, 32>> \o mark_field(p.marker_u16)
               \o <<32, 45, 62, 32>> \o mark_field(c.marker_u16)>>
        ELSE <<>>)
    \o (IF p.len_text # c.len_text
        THEN <<<<32, 32, 116, 101, 120, 116, 76, 101, 110, 58, 32>> \o Hex04(p.len_text)
               \o <<32, 45, 62, 32>> \o Hex04(c.len_text)>>
        ELSE <<>>)
    \o (IF p.note_len # c.note_len
        THEN <<<<32, 32, 110, 111, 116, 101, 76, 101, 110, 58, 32>> \o Hex04(p.note_len)
               \o <<32, 45, 62, 32>> \o Hex04(c.note_len)>>
        ELSE <<>>)
    \o (IF NoteText(p) # NoteText(c)
        THEN IF p.note_len = c.note_len
             THEN <<<<32, 32, 110, 111, 116, 101, 58, 32, 40, 116, 101, 120, 116, 32, 99, 104, 97, 110, 103, 101, 100, 41>>>>
             ELSE <<<<32, 32, 110, 111, 116, 101, 58, 32, 40, 108, 101, 110, 103, 116, 104, 32, 97, 110, 100, 32, 116, 101, 120, 116, 32, 99, 104, 97, 110, 103, 101, 100, 41>>>>
        ELSE <<>>)

\* diff_two_recs: the change lines of a matched pair
diff_two_recs(p, c, show) ==
    (IF p.attr # c.attr
     THEN <<<<32, 32, 97, 116, 116, 114, 58, 32>> \o fmt_attr_bits(p.attr, show)
            \o <<32, 45, 62, 32>> \o fmt_attr_bits(c.attr, show)>>
     ELSE <<>>)
    \o (IF p.marker_u16 # c.marker_u16
        THEN <<<<32, 32, 109, 97, 114, 107, 58, 32>> \o mark_field(p.marker_u16)
               \o <<32, 45, 62, 32>> \o mark_field(c.marker_u16)>>
        ELSE <<>>)
    \o (IF p.delta # c.delta
        THEN <<<<32, 32, 100, 101, 108, 116, 97, 58, 32>> \o delta_field(p.delta)
               \o <<32, 45, 62, 32>> \o delta_field(c.delta)>>
        ELSE <<>>)
    \o (IF p.len_text # c.len_text
        THEN <<<<32, 32, 116, 101, 120, 116, 76, 101, 110, 58, 32>> \o Hex04(p.len_text)
               \o <<32, 45, 62, 32>> \o Hex04(c.len_text)>>
        ELSE <<>>)
    \o (IF p.note_len # c.note_len
        THEN <<<<32, 32, 110, 111, 116, 101, 76, 101, 110, 58, 32>> \o Hex04(p.note_len)
               \o <<32, 45, 62, 32>> \o Hex04(c.note_len)>>
        ELSE <<>>)
    \o (IF NoteText(p) # NoteText(c)
        THEN IF p.note_len = c.note_len
             THEN <<<<32, 32, 110, 111, 116, 101, 58, 32, 40, 116, 101, 120, 116, 32, 99, 104, 97, 110, 103, 101, 100, 41>>>>
             ELSE <<<<32, 32, 110, 111, 116, 101, 58, 32, 40, 108, 101, 110, 103, 116, 104, 32, 97, 110, 100, 32, 116, 101, 120, 116, 32, 99, 104, 97, 110, 103, 101, 100, 41>>>>
        ELSE <<>>)

\* the search that takes the last unmatched previous record of the same text
FindMatch_LastUnmatched(pv, used, c) ==
    IF \E j \in 1..Len(pv) : ~used[j] /\ pv[j].text = c.text
    THEN Some((CHOOSE j \in 1..Len(pv) :
                  /\ ~used[j] /\ pv[j].text = c.text
                  /\ \A j2 \in (j + 1)..Len(pv) : ~(~used[j2] /\ pv[j2].text = c.text)) - 1)
    ELSE None

\* the search that takes the first previous record of the same text, matched or not
FindMatch_IgnoreUsed(pv, used, c) ==
    IF \E j \in 1..Len(pv) : pv[j].text = c.text
    THEN Some((CHOOSE j \in 1..Len(pv) :
                  /\ pv[j].text = c.text
                  /\ \A j2 \in 1..(j - 1) : ~(pv[j2].text = c.text)) - 1)
    ELSE None

\* match_idx: the first unmatched previous record with identical text (0-based)
FindMatch(pv, used, c) ==
    IF \E j \in 1..Len(pv) : ~used[j] /\ pv[j].text = c.text
    THEN Some((CHOOSE j \in 1..Len(pv) :
                  /\ ~used[j] /\ pv[j].text = c.text
                  /\ \A j2 \in 1..(j - 1) : ~(~used[j2] /\ pv[j2].text = c.text)) - 1)
    ELSE None

\* format!("{sign} \"{}\"", text)
HeadingLine(sign, text) == <<sign, 32, 34>> \o text \o <<34>>

\* the lines one current record adds to the report
DiffLines(pv, used, c, show) ==
    LET m == FindMatch(pv, used, c)
    IN  IF IsSome(m)
        THEN LET changes == diff_two_recs(pv[Unwrap(m) + 1], c, show)
             IN  IF changes # <<>> THEN <<HeadingLine(126, c.text)>> \o changes ELSE <<>>
        ELSE <<HeadingLine(43, c.text)>>

\* the "-" lines of the unmatched previous records, in their order
RemovedLines(pv, used) ==
    Flatten([j \in 1..Len(pv) |->
                IF ~used[j] THEN <<HeadingLine(45, pv[j].text)>> ELSE <<>>],
            1, Len(pv))

DiffStep ==
    /\ dres = "loop"
    /\ di < Len(curr)
    /\ LET c == curr[di + 1]
           m == FindMatch(prev, used_prev, c)
           lines == DiffLines(prev, used_prev, c, show_cursor)
       IN  /\ used_prev' = IF IsSome(m)
                           THEN [used_prev EXCEPT ![Unwrap(m) + 1] = TRUE]
                           ELSE used_prev
           /\ report' = report \o lines
           /\ matches' = Append(matches, m)
           /\ emitted' = Append(emitted, lines)
    /\ di' = di + 1
    /\ UNCHANGED <<prev, curr, dres, show_cursor>>
    /\ UNCHANGED <<recs, pvars, tvars, vvars, ci, canon, cres, rvars, mvars, evars>>

DiffFinish ==
    /\ dres = "loop"
    /\ di = Len(curr)
    /\ report' = report \o RemovedLines(prev, used_prev)
    /\ dres' = "done"
    /\ UNCHANGED <<prev, curr, di, used_prev, matches, emitted, show_cursor>>
    /\ UNCHANGED <<recs, pvars, tvars, vvars, ci, canon, cres, rvars, mvars, evars>>

IdleDiff ==
    /\ prev = <<>>
    /\ curr = <<>>
    /\ di = 0
    /\ used_prev = <<>>
    /\ report = <<>>
    /\ matches = <<>>
    /\ emitted = <<>>
    /\ dres = "idle"

IdleMain ==
    /\ m_tree = <<>>
    /\ plain_text = FALSE
    /\ printed = <<>>
    /\ mres = "idle"

IdleEncode ==
    /\ e_nodes = <<>>
    /\ e_enc = "latin1"
    /\ e_flats = <<>>
    /\ buf2 = <<>>
    /\ recs2 = <<>>
    /\ eres = "idle"

\* the outcome of a run that has not happened
NoOutcome ==
    [parse |-> "", reparse |-> "", records |-> 0, plain1 |-> 0, plain2 |-> 0,
     same |-> FALSE]

IdleRT ==
    /\ rt_recs = <<>>
    /\ rt_enc = "latin1"
    /\ rt_stage = "idle"
    /\ rt_res = NoOutcome

(***************************************************************************)
(* render_plain_all                                                        *)
(***************************************************************************)
\* str::lines: the pieces between line feeds, a CR before the line feed
\* dropped, no empty piece after a final line feed
Lines(str) ==
    LET IsLF(j) == str[j] = LF
        ends == SelectSeq(Indices(str), IsLF)
        n == Len(ends)
        count == IF (IF n = 0 THEN 1 ELSE ends[n] + 1) <= Len(str) THEN n + 1 ELSE n
        Piece(m) ==
            LET lo == IF m = 1 THEN 1 ELSE ends[m - 1] + 1
                hi == IF m <= n THEN ends[m] - 1 ELSE Len(str)
            IN  IF m <= n /\ hi >= lo /\ str[hi] = CR
                THEN SubSeq(str, lo, hi - 1)
                ELSE SubSeq(str, lo, hi)
    IN  [m \in 1..count |-> Piece(m)]

\* " ".repeat(n)
Spaces(n) == [j \in 1..n |-> 32]

PlainNote(note, depth) ==
    LET ls == Lines(ReplaceCrlf(note))
    IN  Flatten([m \in 1..Len(ls) |-> Spaces((depth + 1) * 2) \o ls[m] \o <<LF>>],
                1, Len(ls))

\* the rendering with one space, not two, for each level of depth
RECURSIVE render_plain_all_Shallow(_, _)
render_plain_all_Shallow(ns, depth) ==
    Flatten([m \in 1..Len(ns) |->
                IF ns[m].synthetic
                THEN render_plain_all_Shallow(ns[m].children, depth)
                ELSE Spaces(depth) \o ns[m].text \o <<LF>>
                     \o (IF IsSome(ns[m].note)
                         THEN PlainNote(Unwrap(ns[m].note), depth)
                         ELSE <<>>)
                     \o render_plain_all_Shallow(ns[m].children, depth + 1)],
            1, Len(ns))

RECURSIVE render_plain_all(_, _)
render_plain_all(nodes, depth) ==
    Flatten([m \in 1..Len(nodes) |->
                IF nodes[m].synthetic
                THEN render_plain_all(nodes[m].children, depth)
                ELSE Spaces(depth * 2) \o nodes[m].text \o <<LF>>
                     \o (IF IsSome(nodes[m].note)
                         THEN PlainNote(Unwrap(nodes[m].note), depth)
                         ELSE <<>>)
                     \o render_plain_all(nodes[m].children, depth + 1)],
            1, Len(nodes))

(***************************************************************************)
(* render_indented                                                         *)
(***************************************************************************)
\* the "> " lines of a note under a prefix
IndentedNote(note, prefix) ==
    LET ls == Lines(ReplaceCrlf(note))
    IN  Flatten([m \in 1..Len(ls) |->
                    prefix \o <<32, 32, 32, 32, 62, 32>> \o ls[m] \o <<LF>>],
                1, Len(ls))

\* the descent that ignores the collapsed flag
RECURSIVE render_indented_Always(_, _)
render_indented_Always(ns, prefix) ==
    Flatten([m \in 1..Len(ns) |->
                IF ns[m].synthetic
                THEN render_indented_Always(ns[m].children, prefix)
                ELSE prefix
                     \o (IF ns[m].collapsed THEN <<91, 43, 93>> ELSE <<91, 45, 93>>)
                     \o (IF ns[m].flags.selected THEN <<42>> ELSE <<32>>)
                     \o <<32>> \o ns[m].text \o <<LF>>
                     \o (IF IsSome(ns[m].note)
                         THEN IndentedNote(Unwrap(ns[m].note), prefix)
                         ELSE <<>>)
                     \o render_indented_Always(ns[m].children, prefix \o <<32, 32, 32, 32>>)],
            1, Len(ns))

RECURSIVE render_indented(_, _)
render_indented(ns, prefix) ==
    Flatten([m \in 1..Len(ns) |->
                IF ns[m].synthetic
                THEN render_indented(ns[m].children, prefix)
                ELSE prefix
                     \o (IF ns[m].collapsed THEN <<91, 43, 93>> ELSE <<91, 45, 93>>)
                     \o (IF ns[m].flags.selected THEN <<42>> ELSE <<32>>)
                     \o <<32>> \o ns[m].text \o <<LF>>
                     \o (IF IsSome(ns[m].note)
                         THEN IndentedNote(Unwrap(ns[m].note), prefix)
                         ELSE <<>>)
                     \o (IF ~ns[m].collapsed /\ ns[m].children # <<>>
                         THEN render_indented(ns[m].children, prefix \o <<32, 32, 32, 32>>)
                         ELSE <<>>)],
            1, Len(ns))

(***************************************************************************)
(* The encoder: encode_heading_from_text, encode_note_bytes,               *)
(* serialize_tree_to_otl.                                                  *)
(***************************************************************************)
U16_MAX == 65535

encode_heading_from_text(text) ==
    [m \in 1..Len(text) |-> (IF text[m] < 128 THEN text[m] ELSE 63) % 128]

encode_note_bytes(note, enc) ==
    CASE enc = "utf8"   -> as_bytes(note)
      [] enc = "latin1" -> [m \in 1..Len(note) |-> IF note[m] <= 255 THEN note[m] ELSE 63]
      [] enc = "ascii"  -> LET bs == as_bytes(note) IN [m \in 1..Len(bs) |-> bs[m] % 128]
      [] OTHER          -> as_bytes(note)

\* the Flat whose attribute byte also carries the has-child bit of the node
FlatOf_CopiesChildBit(n, idx, count, lvl, enc) ==
    [level |-> lvl,
     attr |-> (IF IsSome(n.note) THEN A_NOTE ELSE 0)
              + (IF n.flags.selected THEN A_CURSOR ELSE 0)
              + (IF idx + 1 < count THEN A_SIBFOLLOWS ELSE 0)
              + (IF n.flags.has_child THEN A_HASKIDS ELSE 0),
     marker_first |-> IF n.collapsed THEN M_COLLAPSED ELSE M_EXPANDED,
     text |-> encode_heading_from_text(n.text),
     note |-> IF IsSome(n.note) THEN Some(encode_note_bytes(Unwrap(n.note), enc)) ELSE None]

\* one Flat of the walk; idx is the 0-based position among nodes
FlatOf(n, idx, count, lvl, enc) ==
    [level |-> lvl,
     attr |-> (IF IsSome(n.note) THEN A_NOTE ELSE 0)
              + (IF n.flags.selected THEN A_CURSOR ELSE 0)
              + (IF idx + 1 < count THEN A_SIBFOLLOWS ELSE 0),
     marker_first |-> IF n.collapsed THEN M_COLLAPSED ELSE M_EXPANDED,
     text |-> encode_heading_from_text(n.text),
     note |-> IF IsSome(n.note) THEN Some(encode_note_bytes(Unwrap(n.note), enc)) ELSE None]

RECURSIVE walk(_, _, _)
walk(nodes, lvl, enc) ==
    Flatten([m \in 1..Len(nodes) |->
                IF nodes[m].synthetic
                THEN walk(nodes[m].children, lvl, enc)
                ELSE <<FlatOf(nodes[m], m - 1, Len(nodes), lvl, enc)>>
                     \o walk(nodes[m].children, lvl + 1, enc)],
            1, Len(nodes))

\* (x as i16).to_le_bytes()
ToLeI16(x) == LET u == x % 65536 IN <<u % 256, u \div 256>>

\* u16::to_le_bytes
ToLeU16(n) == <<n % 256, n \div 256>>

\* the bytes of one Flat with the level itself written as the delta
FlatBytes_AbsoluteLevel(f, prev_level) ==
    f.text \o <<255, f.attr, f.marker_first, 255>> \o ToLeI16(f.level)
    \o (IF IsSome(f.note)
        THEN LET nlen == IF Len(Unwrap(f.note)) <= U16_MAX
                         THEN Len(Unwrap(f.note)) ELSE U16_MAX
             IN  ToLeU16(nlen) \o Slice(Unwrap(f.note), 0, nlen)
        ELSE <<>>)

\* the bytes of one Flat
FlatBytes(f, prev_level) ==
    f.text \o <<255, f.attr, f.marker_first, 255>> \o ToLeI16(f.level - prev_level)
    \o (IF IsSome(f.note)
        THEN LET nlen == IF Len(Unwrap(f.note)) <= U16_MAX
                         THEN Len(Unwrap(f.note)) ELSE U16_MAX
             IN  ToLeU16(nlen) \o Slice(Unwrap(f.note), 0, nlen)
        ELSE <<>>)

SerializeFlats(flats) ==
    MAGIC \o PREAMBLE
    \o Flatten([m \in 1..Len(flats) |->
                   FlatBytes(flats[m], IF m = 1 THEN 0 ELSE flats[m - 1].level)],
               1, Len(flats))
    \o <<26>>

serialize_tree_to_otl(nodes, enc) == SerializeFlats(walk(nodes, 0, enc))

(***************************************************************************)
(* The decoder as a state machine: one action per way an iteration ends.   *)
(***************************************************************************)
ParseStart ==
    /\ pres = "start"
    /\ i' = SkipPrefix(buf)
    /\ pres' = "loop"
    /\ UNCHANGED <<buf, note_enc, out>>
    /\ UNCHANGED <<recs, tvars, vvars, cvars, dvars, rvars, mvars, evars>>

ParseEnd ==
    /\ pres = "loop"
    /\ i >= Len(buf) \/ ParseIter(buf, note_enc, i).kind = "break"
    /\ pres' = "ok"
    /\ UNCHANGED <<buf, note_enc, i, out>>
    /\ UNCHANGED <<recs, tvars, vvars, cvars, dvars, rvars, mvars, evars>>

ParseFail ==
    /\ pres = "loop"
    /\ i < Len(buf)
    /\ LET o == ParseIter(buf, note_enc, i)
       IN  /\ o.kind = "err"
           /\ pres' = o.msg
           /\ i' = o.i
    /\ UNCHANGED <<buf, note_enc, out>>
    /\ UNCHANGED <<recs, tvars, vvars, cvars, dvars, rvars, mvars, evars>>

ParsePanic ==
    /\ pres = "loop"
    /\ i < Len(buf)
    /\ ParseIter(buf, note_enc, i).kind = "panic"
    /\ pres' = "panic"
    /\ UNCHANGED <<buf, note_enc, i, out>>
    /\ UNCHANGED <<recs, tvars, vvars, cvars, dvars, rvars, mvars, evars>>

ParseStray ==
    /\ pres = "loop"
    /\ i < Len(buf)
    /\ LET o == ParseIter(buf, note_enc, i)
       IN  /\ o.kind = "stray"
           /\ i' = o.i
    /\ UNCHANGED <<buf, note_enc, out, pres>>
    /\ UNCHANGED <<recs, tvars, vvars, cvars, dvars, rvars, mvars, evars>>

ParseRecord ==
    /\ pres = "loop"
    /\ i < Len(buf)
    /\ LET o == ParseIter(buf, note_enc, i)
       IN  /\ o.kind = "rec"
           /\ i' = o.i
           /\ out' = Append(out, Unwrap(o.rec))
    /\ UNCHANGED <<buf, note_enc, pres>>
    /\ UNCHANGED <<recs, tvars, vvars, cvars, dvars, rvars, mvars, evars>>

Encodings == {"utf8", "latin1", "ascii"}

\* the bytes the raw input buffers are made of
RawBytes == {0, 1, 26, 128, 254, 255}

RawBuffers == UNION {[1..n -> RawBytes] : n \in 0..MaxRawLen}

\* tests::le_i16, tests::le_u16
le_i16(d) == LET u == IF d < 0 THEN d + 65536 ELSE d IN <<u % 256, u \div 256>>
le_u16(n) == <<n % 256, n \div 256>>

\* tests::rec_bytes: one record; note is an Option
rec_bytes(text, attr, marker_first, delta, note) ==
    text \o <<255, attr, marker_first, 255>> \o le_i16(delta)
         \o (IF HasBit(attr, A_NOTE)
             THEN LET nb == IF IsSome(note) THEN Unwrap(note) ELSE <<>>
                  IN  le_u16(Len(nb) % 65536) \o nb
             ELSE <<>>)

\* the pieces the file-like input buffers are made of: records, stray
\* terminators inside heading text, an end sentinel
FileChunks ==
    { rec_bytes(<<65>>, 0, M_EXPANDED, 0, None),
      rec_bytes(<<193>>, 128, M_COLLAPSED, 1, Some(<<13, 10>>)),
      rec_bytes(<<>>, 136, M_EXPANDED, -1, Some(<<>>)),
      <<255>>,
      <<65, 255>>,
      <<26>> }

FilePrefixes == {<<>>, MAGIC, PREAMBLE, MAGIC \o PREAMBLE}

ChunkSeqs == UNION {[1..n -> FileChunks] : n \in 0..MaxChunks}

\* every file made of a prefix and chunks, cut at every length
FileBuffers ==
    UNION { LET f == pre \o Flatten(cs, 1, Len(cs))
            IN  {SubSeq(f, 1, n) : n \in 0..Len(f)} :
            pre \in FilePrefixes, cs \in ChunkSeqs }

InitParse ==
    /\ buf \in RawBuffers \cup FileBuffers
    /\ note_enc \in Encodings
    /\ i = 0
    /\ out = <<>>
    /\ pres = "start"
    /\ recs = <<>>
    /\ IdleTree
    /\ IdleValidate
    /\ IdleCanon
    /\ IdleDiff
    /\ IdleRT
    /\ IdleMain
    /\ IdleEncode

NextParse == ParseStart \/ ParseEnd \/ ParseFail \/ ParsePanic \/ ParseStray \/ ParseRecord

SpecParse == InitParse /\ [][NextParse]_vars
(***************************************************************************)
(* The record sequences build_tree is run on: the records parse_otl        *)
(* decodes from a file of the test helpers (otl_file of rec_bytes), one    *)
(* heading letter per record, every delta sequence within the bounds.      *)
(***************************************************************************)
\* tests::otl_file
otl_file(records) == MAGIC \o PREAMBLE \o Flatten(records, 1, Len(records))

Deltas == (-MaxDelta..MaxDelta) \cup {-32768}

DeltaSeqs == UNION {[1..n -> Deltas] : n \in 0..MaxRecs}

RecsOfDeltas(ds) ==
    parse_otl(otl_file([j \in 1..Len(ds) |->
                           rec_bytes(<<64 + j>>, 0, M_EXPANDED, ds[j], None)]),
              "latin1").recs

InitTree ==
    /\ \E ds \in DeltaSeqs : recs = RecsOfDeltas(ds)
    /\ ri = 0
    /\ root = SyntheticNode
    /\ path = <<>>
    /\ level = 0
    /\ tres = "loop"
    /\ placed = <<>>
    /\ IdleParse
    /\ IdleValidate
    /\ IdleCanon
    /\ IdleDiff
    /\ IdleRT
    /\ IdleMain
    /\ IdleEncode

NextTree == BuildStep \/ BuildReturn

SpecTree == InitTree /\ [][NextTree]_vars
(***************************************************************************)
(* The record sequences validate is run on: decoded from files of          *)
(* rec_bytes records with every combination of these deltas and attribute  *)
(* bytes (sibling bit alone, selection with and without the sibling bit,   *)
(* the 0x04 bit, an unknown bit).                                          *)
(***************************************************************************)
ValidateDeltas == {-1, 0, 1, 2}

ValidateAttrs == {0, 8, 40, 52}

ValidateInputs ==
    UNION {[1..n -> ValidateDeltas \X ValidateAttrs] : n \in 0..MaxVRecs}

RecsOfPairs(ps) ==
    parse_otl(otl_file([j \in 1..Len(ps) |->
                           rec_bytes(<<64 + j>>, ps[j][2], M_EXPANDED, ps[j][1], None)]),
              "latin1").recs

InitValidate ==
    /\ \E ps \in ValidateInputs : recs = RecsOfPairs(ps)
    /\ assume_child_bit \in BOOLEAN
    /\ vi = 0
    /\ warnings = <<>>
    /\ vres = "loop"
    /\ IdleParse
    /\ IdleTree
    /\ IdleCanon
    /\ IdleDiff
    /\ IdleRT
    /\ IdleMain
    /\ IdleEncode

NextValidate == ValidateStep \/ ValidateReturn

SpecValidate == InitValidate /\ [][NextValidate]_vars

(***************************************************************************)
(* The record sequences render_canon is run on: decoded, under each note   *)
(* encoding, from files of records with and without notes.  The notes      *)
(* hold CR LF pairs, lone CR and LF, a final LF, bytes that are and are    *)
(* not UTF-8; the last record is B of tests::canon_golden_minimal.         *)
(***************************************************************************)
CanonNotes ==
    { <<>>, <<97>>, <<13, 10>>, <<97, 10>>, <<13, 13, 10, 98>>, <<195, 169, 128>> }

GoldenA == rec_bytes(<<65>>, 0, M_EXPANDED, 0, None)
GoldenB == rec_bytes(<<66>>, A_NOTE, M_EXPANDED, 1, Some(<<104, 101, 108, 108, 111, 13, 10, 119, 111, 114, 108, 100>>))

CanonChunks ==
    { rec_bytes(<<65>>, 0, M_EXPANDED, 0, None),
      rec_bytes(<<34, 193, 92>>, 0, M_COLLAPSED, -10, None),
      rec_bytes(<<65>>, 168, M_EXPANDED, 0, Some(<<10>>)),
      rec_bytes(<<34, 193, 92>>, 168, M_COLLAPSED, -10, Some(<<10>>)),
      GoldenB }
    \cup { rec_bytes(<<65>>, A_NOTE, M_EXPANDED, 0, Some(n)) : n \in CanonNotes }
    \cup { rec_bytes(<<34, 193, 92>>, A_NOTE, M_COLLAPSED, -10, Some(n)) : n \in CanonNotes }

CanonInputs == UNION {[1..n -> CanonChunks] : n \in 0..MaxCanonRecs}

InitCanon ==
    /\ \E cs \in CanonInputs, enc \in Encodings : recs = parse_otl(otl_file(cs), enc).recs
    /\ show_cursor \in BOOLEAN
    /\ ci = 0
    /\ canon = <<>>
    /\ cres = "loop"
    /\ IdleParse
    /\ IdleTree
    /\ IdleValidate
    /\ IdleDiff
    /\ IdleRT
    /\ IdleMain
    /\ IdleEncode

NextCanon == CanonStep \/ CanonReturn

SpecCanon == InitCanon /\ [][NextCanon]_vars

(***************************************************************************)
(* The record sequences diff_mode is run on, decoded as main does for      *)
(* --diff (latin1): sequences over three records (A, A selected, B), so    *)
(* that headings repeat, and single records that differ from one another   *)
(* in each compared field.                                                 *)
(***************************************************************************)
DiffSeqChunks ==
    { rec_bytes(<<65>>, 0, M_EXPANDED, 0, None),
      rec_bytes(<<65>>, A_CURSOR, M_EXPANDED, 0, None),
      rec_bytes(<<66>>, 0, M_EXPANDED, 0, None) }

DiffPairChunks ==
    DiffSeqChunks \cup
    { rec_bytes(<<65>>, 0, M_COLLAPSED, 0, None),
      rec_bytes(<<65>>, 0, M_EXPANDED, 1, None),
      rec_bytes(<<65>>, A_NOTE, M_EXPANDED, 0, Some(<<97>>)),
      rec_bytes(<<65>>, A_NOTE, M_EXPANDED, 0, Some(<<98>>)),
      rec_bytes(<<65>>, A_NOTE, M_EXPANDED, 0, Some(<<97, 98>>)),
      rec_bytes(<<67, 32>>, 0, M_EXPANDED, 0, None),
      rec_bytes(<<195>>, 0, M_EXPANDED, 0, None),
      rec_bytes(<<195>>, A_NOTE + A_CURSOR, M_COLLAPSED, -1, Some(<<97>>)) }

DiffSeqs == UNION {[1..n -> DiffSeqChunks] : n \in 0..MaxDiffRecs}

DiffInputs ==
    (DiffSeqs \X DiffSeqs) \cup {<<<<p>>, <<c>>>> : p \in DiffPairChunks, c \in DiffPairChunks}

InitDiff ==
    /\ \E pc \in DiffInputs :
          /\ prev = parse_otl(otl_file(pc[1]), "latin1").recs
          /\ curr = parse_otl(otl_file(pc[2]), "latin1").recs
    /\ show_cursor \in BOOLEAN
    /\ di = 0
    /\ used_prev = [j \in 1..Len(prev) |-> FALSE]
    /\ report = <<>>
    /\ matches = <<>>
    /\ emitted = <<>>
    /\ dres = "loop"
    /\ recs = <<>>
    /\ IdleParse
    /\ IdleTree
    /\ IdleValidate
    /\ IdleRT
    /\ IdleMain
    /\ IdleEncode
    /\ ci = 0 /\ canon = <<>> /\ cres = "idle"

NextDiff == DiffStep \/ DiffFinish

SpecDiff == InitDiff /\ [][NextDiff]_vars

(***************************************************************************)
(* The claims.                                                             *)
(***************************************************************************)
\* the zero-floored running sum of the deltas of records 1..j
RECURSIVE LevelOf(_, _)
LevelOf(rs, j) ==
    IF j = 0 THEN 0
    ELSE LET sum == LevelOf(rs, j - 1) + rs[j].delta
         IN  IF sum > 0 THEN sum ELSE 0

\* the deltas of the records
DeltasOf(rs) == [j \in 1..Len(rs) |-> rs[j].delta]

(* C2: the node build_tree creates for record j lies at depth level_j      *)
(* (its ancestors below the synthetic root, fillers counted), where        *)
(* level_j is the zero-floored running sum of the deltas; the level is     *)
(* never negative.                                                         *)
C2_DepthInvariant ==
    /\ level >= 0
    /\ \A j \in 1..Len(placed) :
          LET q == placed[j].path
          IN  /\ Len(q) - 1 = LevelOf(recs, j)
              /\ PathInBounds(root, q)
              /\ ~NodeAt(root, q).synthetic
              /\ NodeAt(root, q).text = recs[j].text

\* a finished tree with a filler and a clamped level
C2_Witness ==
    /\ tres = "done"
    /\ CountSynthetic(root) > 0
    /\ \E j \in 1..Len(recs) : LevelOf(recs, j - 1) + recs[j].delta < 0
    /\ Len(placed) = Len(recs)

ClassifiedFailures ==
    { "unterminated heading text", "truncated record header", "truncated note length",
      "truncated note bytes", "heading too large" }

(* C3: parse_otl ends with the record sequence or with one of the          *)
(* classified failures; no input ends it with a read outside the buffer.   *)
C3_DecoderTotality == pres \in {"idle", "start", "loop", "ok"} \cup ClassifiedFailures

\* the number of synthetic nodes record j added to the tree
FillersOf(j) ==
    (IF j < Len(placed) THEN placed[j + 1].synthetic_before ELSE CountSynthetic(root))
    - placed[j].synthetic_before

\* the length of the path before record j: the previous record's level plus one
PathBefore(j) == IF j = 1 THEN 0 ELSE LevelOf(recs, j - 1) + 1

(* C8: for a record of level L met with a path of length P < L,            *)
(* build_tree creates exactly L - P fillers, a chain under the node the    *)
(* path addresses, and the record's node is the child of the deepest; for  *)
(* L <= P it creates none.  Deltas [0,+2,-1,0] give A the children         *)
(* [filler[B], C, D].                                                      *)
C8_FillerSynthesis ==
    /\ \A j \in 1..Len(placed) :
          LET L == LevelOf(recs, j)
              P == PathBefore(j)
              q == placed[j].path
          IN  /\ FillersOf(j) = IF P < L THEN L - P ELSE 0
              /\ P < L => \A m \in (P + 1)..L : NodeAt(root, SubSeq(q, 1, m)).synthetic
              /\ P < L /\ j > 1 => SubSeq(q, 1, P) = placed[j - 1].path
              /\ (P < L /\ j = Len(placed)) =>
                     \A m \in (P + 1)..L : Len(NodeAt(root, SubSeq(q, 1, m)).children) = 1
    /\ (tres = "done" /\ DeltasOf(recs) = <<0, 2, -1, 0>>) =>
          /\ Len(root.children) = 1
          /\ root.children[1].text = <<65>>
          /\ Len(root.children[1].children) = 3
          /\ root.children[1].children[1].synthetic
          /\ Len(root.children[1].children[1].children) = 1
          /\ root.children[1].children[1].children[1].text = <<66>>
          /\ root.children[1].children[2].text = <<67>>
          /\ root.children[1].children[3].text = <<68>>
          /\ \A c \in 2..3 : ~root.children[1].children[c].synthetic

\* the tree of the deltas [0,+2,-1,0] is built
C8_Witness == tres = "done" /\ DeltasOf(recs) = <<0, 2, -1, 0>> /\ Len(placed) = 4

(* C9: build_tree never aborts: at every push_child each index of the      *)
(* path addresses an existing child, the last one of its list.             *)
C9_NeverFails ==
    /\ tres # "panic"
    /\ PathInBounds(root, path)
    /\ \A m \in 1..Len(path) :
          path[m] = Len(NodeAt(root, SubSeq(path, 1, m - 1)).children) - 1

\* a finished tree after a jump of two levels and a delta below level 0
C9_Witness ==
    /\ tres = "done"
    /\ Len(placed) = Len(recs)
    /\ \E j \in 1..Len(recs) : recs[j].delta >= 2
    /\ \E j \in 1..Len(recs) : recs[j].delta = -32768

\* the sibling-follows value recomputed from the levels: a later record at the
\* level of record j with no record of a lower level in between
SiblingFollows(rs, j) ==
    \E k \in (j + 1)..Len(rs) :
        /\ LevelOf(rs, k) = LevelOf(rs, j)
        /\ \A m \in (j + 1)..(k - 1) : LevelOf(rs, m) >= LevelOf(rs, j)

SiblingWarnings(j) == {w \in 1..Len(warnings) :
                          warnings[w].kind = "sibling" /\ warnings[w].idx = j - 1}

(* C4: validate warns of a sibling-bit mismatch for record j exactly when  *)
(* bit 0x08 of the record differs from the recomputed value (a later       *)
(* record at the same level before the level drops below it); the warning  *)
(* carries both values.                                                    *)
C4_SiblingBitCheck ==
    \A j \in 1..vi :
        LET bit == HasBit(recs[j].attr, A_SIBFOLLOWS)
        IN  /\ (SiblingWarnings(j) # {}) <=> (bit # SiblingFollows(recs, j))
            /\ Cardinality(SiblingWarnings(j)) <= 1
            /\ \A w \in SiblingWarnings(j) :
                  /\ warnings[w].attr = bit
                  /\ warnings[w].expected = SiblingFollows(recs, j)

\* validate has run over a sequence whose level drops between two records of
\* the same level, with a record warned about and a record with the bit set
\* and no warning
C4_Witness ==
    /\ vres = "done"
    /\ Len(recs) = 3
    /\ LevelOf(recs, 1) = 1 /\ LevelOf(recs, 2) = 0 /\ LevelOf(recs, 3) = 1
    /\ SiblingWarnings(1) # {}
    /\ HasBit(recs[2].attr, A_SIBFOLLOWS) /\ SiblingWarnings(2) # {}
    /\ ~HasBit(recs[3].attr, A_SIBFOLLOWS) /\ SiblingWarnings(3) = {}

Selected(rs) == {j \in 1..Len(rs) : HasBit(rs[j].attr, A_CURSOR)}

\* the records with the selection bit cleared
ClearSelection(rs) ==
    [j \in 1..Len(rs) |->
        IF HasBit(rs[j].attr, A_CURSOR)
        THEN [rs[j] EXCEPT !.attr = @ - A_CURSOR, !.flags.selected = FALSE]
        ELSE rs[j]]

(* C10 as stated: with more than one selected record validate prints       *)
(* exactly one warning listing their indices, with at most one it prints   *)
(* no such warning.                                                        *)
C10_SelectionWarning ==
    vres = "done" =>
        LET sel == {w \in 1..Len(warnings) : warnings[w].kind = "selection"}
        IN  IF Cardinality(Selected(recs)) > 1
            THEN /\ Cardinality(sel) = 1
                 /\ \A w \in sel : warnings[w].indices = {j - 1 : j \in Selected(recs)}
            ELSE sel = {}

(* C10 amended: validate prints no selection-count warning: whatever the   *)
(* number of selected records, its warnings are sibling, child-bit and     *)
(* unknown-bits warnings only, the same as for the records with bit 0x20   *)
(* cleared.                                                                *)
C10_NoSelectionWarning ==
    /\ \A w \in 1..Len(warnings) : warnings[w].kind \in {"sibling", "child", "unknown"}
    /\ vres = "done" => warnings = validate(ClearSelection(recs), assume_child_bit)

\* validate has run over records of which two are selected
C10_Witness == vres = "done" /\ Cardinality(Selected(recs)) >= 2 /\ warnings # <<>>

\* every CR LF of a string replaced by LF, scanning from the left
RECURSIVE CrlfToLf(_)
CrlfToLf(str) ==
    IF Len(str) = 0 THEN <<>>
    ELSE IF Len(str) >= 2 /\ str[1] = CR /\ str[2] = LF
    THEN <<LF>> \o CrlfToLf(SubSeq(str, 3, Len(str)))
    ELSE <<str[1]>> \o CrlfToLf(Tail(str))

\* the value of four lower-case hex digits
HexValue(ds) ==
    LET V(c) == IF c >= 48 /\ c <= 57 THEN c - 48 ELSE c - 87
    IN  V(ds[1]) * 4096 + V(ds[2]) * 256 + V(ds[3]) * 16 + V(ds[4])

IsHexDigit(c) == (c >= 48 /\ c <= 57) \/ (c >= 97 /\ c <= 102)

\* the number of line breaks of a string
CountLF(str) == Cardinality({m \in 1..Len(str) : str[m] = LF})

\* the text render_canon emits for records 1..n, in blocks: the header line
\* of each record, and for a record with the note bit, "noteLen=" and four
\* hex digits, "note", the normalized note ended by one line break, "/note"
RECURSIVE CanonBlocksMatch(_, _, _)
CanonBlocksMatch(text, rs, j) ==
    IF j > Len(rs) THEN text = <<>>
    ELSE LET r == rs[j]
             hdr == CanonHeader(r, show_cursor)
             body == CrlfToLf(Unwrap(r.note))
             ended == IF body # <<>> /\ body[Len(body)] = LF THEN body ELSE body \o <<LF>>
             nh == Len(hdr)
             nb == Len(ended)
         IN  /\ Len(text) >= nh
             /\ SubSeq(text, 1, nh) = hdr
             /\ IF ~HasBit(r.attr, A_NOTE)
                THEN CanonBlocksMatch(SubSeq(text, nh + 1, Len(text)), rs, j + 1)
                ELSE /\ Len(text) >= nh + 13 + 5 + nb + 6
                     /\ SubSeq(text, nh + 1, nh + 8) = <<110, 111, 116, 101, 76, 101, 110, 61>>
                     /\ \A m \in (nh + 9)..(nh + 12) : IsHexDigit(text[m])
                     /\ HexValue(SubSeq(text, nh + 9, nh + 12)) = r.note_len
                     /\ SubSeq(text, nh + 13, nh + 18) = <<10, 110, 111, 116, 101, 10>>
                     /\ SubSeq(text, nh + 19, nh + 18 + nb) = ended
                     /\ SubSeq(text, nh + 19 + nb, nh + 24 + nb) = <<47, 110, 111, 116, 101, 10>>
                     /\ CanonBlocksMatch(SubSeq(text, nh + 25 + nb, Len(text)), rs, j + 1)

GoldenCanon ==
    <<110, 115, 107, 32, 109, 97, 114, 107, 61, 45, 49, 58, 43, 32, 100, 101, 108, 116, 97, 61, 43, 48, 32, 116, 101, 120, 116, 76, 101, 110, 61, 48, 48, 48, 49, 32, 34, 65, 34, 10>>
    \o <<78, 115, 107, 32, 109, 97, 114, 107, 61, 45, 49, 58, 43, 32, 100, 101, 108, 116, 97, 61, 43, 49, 32, 116, 101, 120, 116, 76, 101, 110, 61, 48, 48, 48, 49, 32, 34, 66, 34, 10>>
    \o <<110, 111, 116, 101, 76, 101, 110, 61, 48, 48, 48, 99, 10, 110, 111, 116, 101, 10, 104, 101, 108, 108, 111, 10, 119, 111, 114, 108, 100, 10, 47, 110, 111, 116, 101, 10>>

IsGoldenInput ==
    /\ Len(recs) = 2
    /\ recs[1].text = <<65>> /\ recs[1].attr = 0 /\ recs[1].delta = 0
    /\ recs[1].marker_u16 = 65535
    /\ recs[2].text = <<66>> /\ recs[2].attr = A_NOTE /\ recs[2].delta = 1
    /\ recs[2].marker_u16 = 65535
    /\ recs[2].note_len = 12
    /\ recs[2].note = Some(<<104, 101, 108, 108, 111, 13, 10, 119, 111, 114, 108, 100>>)

(* C5: render_canon emits one header line for a record without the note    *)
(* bit; with it, after the header line, "noteLen=" and the raw note byte   *)
(* length as 4 lower-case hex digits, the line "note", the note with every *)
(* CR LF replaced by LF and ended by a line break (added only when the     *)
(* normalized text does not end in LF), the line "/note".  The note        *)
(* "hello\r\nworld" gives noteLen=000c and the body "hello\nworld".        *)
C5_CanonNoteBlock ==
    /\ CanonBlocksMatch(canon, SubSeq(recs, 1, ci), 1)
    /\ (ci = 1 /\ ~HasBit(recs[1].attr, A_NOTE)) =>
          /\ canon[Len(canon)] = LF
          /\ CountLF(canon) = 1 + CountLF(recs[1].text)
    /\ (cres = "done" /\ IsGoldenInput /\ ~show_cursor) => canon = GoldenCanon

\* the golden file has been rendered
C5_Witness == cres = "done" /\ IsGoldenInput /\ ~show_cursor /\ Len(canon) > 0

HasPrefix(line, pre) == Len(line) >= Len(pre) /\ SubSeq(line, 1, Len(pre)) = pre

\* the lines of a sequence of lines that start with a character
LinesWith(lines, sign) == {m \in 1..Len(lines) : HasPrefix(lines[m], <<sign, 32, 34>>)}

\* previous record j (1-based) is the match of one of the current records 1..a
MatchedBy(j, a) == \E a2 \in 1..a : matches[a2] = Some(j - 1)

MatchedCurrent == {a \in 1..di : IsSome(matches[a])}

\* the "-" lines the claim asks for: the unmatched previous records, in order
ExpectedRemoved ==
    LET Unmatched(j) == ~MatchedBy(j, di)
        left == SelectSeq(Indices(prev), Unmatched)
    IN  [m \in 1..Len(left) |-> HeadingLine(45, prev[left[m]].text)]

(* C6: each current record, in order, is matched to the lowest-index       *)
(* previous record not yet matched with identical heading text; a previous *)
(* record is matched at most once; a current record without one is        *)
(* reported with "+"; after all of them every unmatched previous record is *)
(* reported with "-" in previous order; matched + added = |current| and    *)
(* matched + removed = |previous|.                                         *)
C6_GreedyMatching ==
    /\ \A a \in 1..di :
          LET c == curr[a]
          IN  IF IsSome(matches[a])
              THEN LET j == Unwrap(matches[a]) + 1
                   IN  /\ j \in 1..Len(prev)
                       /\ prev[j].text = c.text
                       /\ ~MatchedBy(j, a - 1)
                       /\ \A j2 \in 1..(j - 1) :
                             prev[j2].text = c.text => MatchedBy(j2, a - 1)
                       /\ LinesWith(emitted[a], 43) = {}
              ELSE /\ \A j \in 1..Len(prev) : prev[j].text = c.text => MatchedBy(j, a - 1)
                   /\ emitted[a] = <<HeadingLine(43, c.text)>>
    /\ \A j \in 1..Len(prev) : used_prev[j] <=> MatchedBy(j, di)
    /\ dres = "loop" => report = Flatten(emitted, 1, Len(emitted))
    /\ dres = "done" =>
          /\ di = Len(curr)
          /\ report = Flatten(emitted, 1, Len(emitted)) \o ExpectedRemoved
          /\ Cardinality(MatchedCurrent) + Cardinality(LinesWith(report, 43)) = Len(curr)
          /\ Cardinality(MatchedCurrent) + Cardinality(LinesWith(report, 45)) = Len(prev)

\* a finished diff with repeated headings: a record added, a record removed,
\* and a current record matched to a previous record at another position
C6_Witness ==
    /\ dres = "done"
    /\ LinesWith(report, 43) # {}
    /\ LinesWith(report, 45) # {}
    /\ \E a \in MatchedCurrent : Unwrap(matches[a]) + 1 # a
    /\ \E a, b \in MatchedCurrent : a # b /\ curr[a].text = curr[b].text

DiffFields == {"attr", "mark", "delta", "textLen", "noteLen", "note"}

FieldDiffers(f, p, c) ==
    CASE f = "attr"    -> p.attr # c.attr
      [] f = "mark"    -> p.marker_u16 # c.marker_u16
      [] f = "delta"   -> p.delta # c.delta
      [] f = "textLen" -> p.len_text # c.len_text
      [] f = "noteLen" -> p.note_len # c.note_len
      [] f = "note"    -> NoteText(p) # NoteText(c)

FieldLabel(f) ==
    CASE f = "attr"    -> <<32, 32, 97, 116, 116, 114, 58, 32>>
      [] f = "mark"    -> <<32, 32, 109, 97, 114, 107, 58, 32>>
      [] f = "delta"   -> <<32, 32, 100, 101, 108, 116, 97, 58, 32>>
      [] f = "textLen" -> <<32, 32, 116, 101, 120, 116, 76, 101, 110, 58, 32>>
      [] f = "noteLen" -> <<32, 32, 110, 111, 116, 101, 76, 101, 110, 58, 32>>
      [] f = "note"    -> <<32, 32, 110, 111, 116, 101, 58, 32>>

IsAttrExample ==
    /\ Len(prev) = 1 /\ Len(curr) = 1
    /\ prev[1].text = <<65>> /\ curr[1].text = <<65>>
    /\ prev[1].attr = 0 /\ curr[1].attr = 32
    /\ \A f \in DiffFields \ {"attr"} : ~FieldDiffers(f, prev[1], curr[1])

(* C7: for a current record matched to a previous record the report holds *)
(* exactly one change line for each field that differs (attribute byte,    *)
(* marker word, delta, raw heading length, raw note length, note text; the *)
(* note line reads "text changed" for equal raw note lengths, "length and  *)
(* text changed" otherwise); the "~" line is printed iff a field differs;  *)
(* the pair gives no "+" or "-" line.  A(attr 0x00) against A(attr 0x20)   *)
(* gives one "~" entry with a single attr line.                            *)
C7_DiffChangeLines ==
    /\ \A a \in MatchedCurrent :
          LET p == prev[Unwrap(matches[a]) + 1]
              c == curr[a]
              D == {f \in DiffFields : FieldDiffers(f, p, c)}
              lines == emitted[a]
          IN  /\ (lines # <<>>) <=> (D # {})
              /\ D # {} =>
                    /\ lines[1] = HeadingLine(126, c.text)
                    /\ Len(lines) = 1 + Cardinality(D)
                    /\ \A f \in DiffFields :
                          Cardinality({m \in 2..Len(lines) : HasPrefix(lines[m], FieldLabel(f))})
                              = IF f \in D THEN 1 ELSE 0
                    /\ "note" \in D =>
                          \E m \in 2..Len(lines) :
                              lines[m] = IF p.note_len = c.note_len
                                         THEN <<32, 32, 110, 111, 116, 101, 58, 32, 40, 116, 101, 120, 116, 32, 99, 104, 97, 110, 103, 101, 100, 41>>
                                         ELSE <<32, 32, 110, 111, 116, 101, 58, 32, 40, 108, 101, 110, 103, 116, 104, 32, 97, 110, 100, 32, 116, 101, 120, 116, 32, 99, 104, 97, 110, 103, 101, 100, 41>>
              /\ LinesWith(lines, 43) = {} /\ LinesWith(lines, 45) = {}
    /\ (dres = "done" /\ IsAttrExample) =>
          /\ Len(report) = 2
          /\ report[1] = HeadingLine(126, <<65>>)
          /\ HasPrefix(report[2], <<32, 32, 97, 116, 116, 114, 58, 32>>)

\* A(attr 0x00) against A(attr 0x20) has been diffed
C7_Witness == dres = "done" /\ IsAttrExample /\ MatchedCurrent = {1}

(***************************************************************************)
(* tests::roundtrip_tree_to_otl_and_back as a state machine.  The state    *)
(* keeps the arguments of the rec_bytes calls (a note is a unit repeated   *)
(* reps times) and the outcome of the run; the buffers, the trees and the  *)
(* renderings are values of the one step.                                  *)
(***************************************************************************)
MaxRTRecs == 2
MaxNoteReps == 21846

\* unit repeated reps times
Repeat(unit, reps) ==
    [j \in 1..(reps * Len(unit)) |-> unit[((j - 1) % Len(unit)) + 1]]

RTArg(text, attr, marker_first, delta, unit, reps) ==
    [text |-> text, attr |-> attr, marker_first |-> marker_first, delta |-> delta,
     unit |-> unit, reps |-> reps]

\* the records the round-trip inputs are made of
RTSmallArgs ==
    { RTArg(<<80>>, 0, M_EXPANDED, 0, <<>>, 0),
      RTArg(<<67>>, A_NOTE, M_EXPANDED, 1, <<76, 49, 13, 10, 76, 50>>, 1),
      RTArg(<<67>>, A_CURSOR, M_COLLAPSED, 0, <<>>, 0),
      RTArg(<<195>>, A_NOTE, M_EXPANDED, 2, <<195, 169, 10>>, 2),
      RTArg(<<>>, A_NOTE, M_EXPANDED, -1, <<128>>, 1),
      RTArg(<<81>>, A_NOTE + A_SIBFOLLOWS, M_EXPANDED, 0, <<255, 13>>, 1),
      RTArg(<<82>>, A_NOTE, M_EXPANDED, -32768, <<>>, 0) }

RTBigArgs ==
    { RTArg(<<80>>, A_NOTE, M_EXPANDED, 0, <<128>>, MaxNoteReps),
      RTArg(<<80>>, A_NOTE, M_EXPANDED, 0, <<97>>, MaxNoteReps) }

RTInputs ==
    UNION {[1..n -> RTSmallArgs] : n \in 0..MaxRTRecs} \cup {<<a>> : a \in RTBigArgs}

\* the buffer the test builds from its rec_bytes calls
RTBuffer(args) ==
    otl_file([j \in 1..Len(args) |->
                 rec_bytes(args[j].text, args[j].attr, args[j].marker_first,
                           args[j].delta, Some(Repeat(args[j].unit, args[j].reps)))])

\* assert_eq!(plain1, plain2) and the sizes of the two renderings
RTCompare(nrecs, plain1, res2, plain2) ==
    [parse |-> "ok", reparse |-> res2, records |-> nrecs,
     plain1 |-> Len(plain1), plain2 |-> Len(plain2),
     same |-> res2 = "ok" /\ plain1 = plain2]

\* tree2 and the two renderings
RTRender(nrecs, tree, p2) ==
    RTCompare(nrecs, render_plain_all(tree, 0), p2.res,
              IF p2.res = "ok" THEN render_plain_all(build_tree(p2.recs), 0) ELSE <<>>)

\* buf2 and recs2
RTReparse(nrecs, tree, enc) ==
    RTRender(nrecs, tree, parse_otl(serialize_tree_to_otl(tree, enc), enc))

\* the outcome of the run from the first parse on
RTOutcome(p1, enc) ==
    IF p1.res # "ok"
    THEN [NoOutcome EXCEPT !.parse = p1.res]
    ELSE RTReparse(Len(p1.recs), build_tree(p1.recs), enc)

RoundTrip ==
    /\ rt_stage = "start"
    /\ rt_stage' = "done"
    /\ rt_res' = RTOutcome(parse_otl(RTBuffer(rt_recs), rt_enc), rt_enc)
    /\ UNCHANGED <<rt_recs, rt_enc>>
    /\ UNCHANGED <<recs, pvars, tvars, vvars, cvars, dvars, mvars, evars>>

InitRT ==
    /\ rt_recs \in RTInputs
    /\ rt_enc \in Encodings
    /\ rt_stage = "start"
    /\ rt_res = NoOutcome
    /\ recs = <<>>
    /\ IdleParse
    /\ IdleTree
    /\ IdleValidate
    /\ IdleCanon
    /\ IdleDiff
    /\ IdleMain
    /\ IdleEncode

NextRT == RoundTrip

SpecRT == InitRT /\ [][NextRT]_vars

(* C1: for every buffer parse_otl decodes and every note encoding, the     *)
(* bytes serialize_tree_to_otl makes of build_tree of the records decode   *)
(* with the same encoding, and build_tree of the re-decoded records has    *)
(* the render_plain_all output of the first tree, character for character. *)
C1_RoundTrip ==
    (rt_stage = "done" /\ rt_res.parse = "ok") =>
        (rt_res.reparse = "ok" /\ rt_res.same)

ChildWarnings(j) == {w \in 1..Len(warnings) :
                        warnings[w].kind = "child" /\ warnings[w].idx = j - 1}

\* the next record exists and is exactly one level deeper than record j
NextExactlyOneDeeper(rs, j) == j < Len(rs) /\ LevelOf(rs, j + 1) = LevelOf(rs, j) + 1

\* the next record exists and is deeper than record j
NextDeeper(rs, j) == j < Len(rs) /\ LevelOf(rs, j + 1) > LevelOf(rs, j)

(* C11 as stated: with the hypothesis toggle set validate warns for record *)
(* j exactly when bit 0x04 differs from "record j+1 exists and its level   *)
(* is exactly level_j + 1"; with the toggle clear it never warns so.       *)
C11_ChildBitExactlyOne ==
    \A j \in 1..vi :
        IF assume_child_bit
        THEN (ChildWarnings(j) # {})
                 <=> (HasBit(recs[j].attr, A_HASKIDS) # NextExactlyOneDeeper(recs, j))
        ELSE ChildWarnings(j) = {}

(* C11 amended: with the hypothesis toggle set validate warns for record j *)
(* exactly when bit 0x04 differs from "record j+1 exists and its           *)
(* zero-floored level is greater than level_j" (one or more levels         *)
(* deeper); the warning carries both values; with the toggle clear it      *)
(* never emits this warning.                                               *)
C11_ChildBitCheck ==
    \A j \in 1..vi :
        IF assume_child_bit
        THEN /\ (ChildWarnings(j) # {})
                    <=> (HasBit(recs[j].attr, A_HASKIDS) # NextDeeper(recs, j))
             /\ Cardinality(ChildWarnings(j)) <= 1
             /\ \A w \in ChildWarnings(j) :
                   /\ warnings[w].attr = HasBit(recs[j].attr, A_HASKIDS)
                   /\ warnings[w].expected = NextDeeper(recs, j)
        ELSE ChildWarnings(j) = {}

\* validate has run with the toggle set over a record with bit 0x04 whose
\* next record is two levels deeper and a record warned about
C11_Witness ==
    /\ vres = "done"
    /\ assume_child_bit
    /\ \E j \in 1..(Len(recs) - 1) :
          /\ HasBit(recs[j].attr, A_HASKIDS)
          /\ LevelOf(recs, j + 1) = LevelOf(recs, j) + 2
          /\ ChildWarnings(j) = {}
    /\ \E j \in 1..Len(recs) : ChildWarnings(j) # {}

(***************************************************************************)
(* main after the decode: build_tree, then the rendering the switches ask  *)
(* for (render_plain_all with --text, render_indented without).            *)
(***************************************************************************)
MaxRenderRecs == 3

MainBuildTree ==
    /\ mres = "parsed"
    /\ m_tree' = build_tree(recs)
    /\ mres' = "built"
    /\ UNCHANGED <<plain_text, printed>>
    /\ UNCHANGED <<recs, pvars, tvars, vvars, cvars, dvars, rvars, evars>>

MainPrintPlain ==
    /\ mres = "built"
    /\ plain_text
    /\ printed' = render_plain_all(m_tree, 0)
    /\ mres' = "printed"
    /\ UNCHANGED <<m_tree, plain_text>>
    /\ UNCHANGED <<recs, pvars, tvars, vvars, cvars, dvars, rvars, evars>>

MainPrintIndented ==
    /\ mres = "built"
    /\ ~plain_text
    /\ printed' = render_indented(m_tree, <<>>)
    /\ mres' = "printed"
    /\ UNCHANGED <<m_tree, plain_text>>
    /\ UNCHANGED <<recs, pvars, tvars, vvars, cvars, dvars, rvars, evars>>

\* the records the rendered files are made of: level jumps, drops, collapsed
\* and selected headings, notes of two lines
RenderChunks ==
    { rec_bytes(<<65>>, 0, M_EXPANDED, 0, None),
      rec_bytes(<<66>>, A_NOTE, M_EXPANDED, 1, Some(<<120, 13, 10, 121>>)),
      rec_bytes(<<67>>, A_NOTE, M_COLLAPSED, 1, Some(<<122>>)),
      rec_bytes(<<68>>, A_HASKIDS, M_EXPANDED, 2, None),
      rec_bytes(<<69>>, 16, M_COLLAPSED, -1, None),
      rec_bytes(<<70>>, A_CURSOR, M_COLLAPSED, 0, None) }

RenderInputs == UNION {[1..n -> RenderChunks] : n \in 0..MaxRenderRecs}

InitRender ==
    /\ \E cs \in RenderInputs : recs = parse_otl(otl_file(cs), "latin1").recs
    /\ plain_text \in BOOLEAN
    /\ m_tree = <<>>
    /\ printed = <<>>
    /\ mres = "parsed"
    /\ IdleParse
    /\ IdleTree
    /\ IdleValidate
    /\ IdleCanon
    /\ IdleDiff
    /\ IdleRT
    /\ IdleEncode

NextRender == MainBuildTree \/ MainPrintPlain \/ MainPrintIndented

SpecRender == InitRender /\ [][NextRender]_vars

\* the records that are ancestors of record j in the forest: for each level
\* below its own, the last earlier record of that level with only deeper
\* records after it
RealAncestors(rs, j) ==
    {k \in 1..(j - 1) :
        /\ LevelOf(rs, k) < LevelOf(rs, j)
        /\ \A m \in (k + 1)..j : LevelOf(rs, m) > LevelOf(rs, k)}

\* the PlainAll text of record j with its heading behind n spaces
PlainEntry(rs, j, n) ==
    Spaces(n) \o rs[j].text \o <<LF>>
    \o (IF IsSome(rs[j].note)
        THEN LET ls == Lines(CrlfToLf(Unwrap(rs[j].note)))
             IN  Flatten([m \in 1..Len(ls) |-> Spaces(n + 2) \o ls[m] \o <<LF>>], 1, Len(ls))
        ELSE <<>>)

(* C12 as stated: in render_plain_all of the forest of build_tree the      *)
(* heading line of every real node is indented by 2 spaces times its depth *)
(* (the zero-floored running sum of deltas up to its record), and every    *)
(* real node is emitted whatever the collapsed flags.                      *)
C12_PlainIndentIsDepth ==
    (mres = "printed" /\ plain_text) =>
        printed = Flatten([j \in 1..Len(recs) |->
                              PlainEntry(recs, j, 2 * LevelOf(recs, j))],
                          1, Len(recs))

(* C12 amended: the heading line of every real node is indented by 2       *)
(* spaces times the number of its real (non-synthetic) ancestors, fillers  *)
(* adding no indentation; this is 2 spaces times the depth for a node with *)
(* no filler above it; every real node is emitted whatever the collapsed   *)
(* flags.                                                                  *)
C12_PlainIndentIsRealDepth ==
    (mres = "printed" /\ plain_text) =>
        /\ printed = Flatten([j \in 1..Len(recs) |->
                                 PlainEntry(recs, j, 2 * Cardinality(RealAncestors(recs, j)))],
                             1, Len(recs))
        /\ \A j \in 1..Len(recs) :
              CountSynthetic([children |-> m_tree]) = 0
                  => Cardinality(RealAncestors(recs, j)) = LevelOf(recs, j)

\* a forest with a filler, a collapsed node with a child and a note has
\* been printed as PlainAll
C12_Witness ==
    /\ mres = "printed" /\ plain_text
    /\ Len(recs) = 3
    /\ recs[1].collapsed /\ LevelOf(recs, 2) = 2 /\ LevelOf(recs, 3) = 3
    /\ IsSome(recs[3].note)

\* record j has no collapsed real ancestor
Visible(rs, j) == \A k \in RealAncestors(rs, j) : ~rs[k].collapsed

\* the Indented text of record j: fold and selection indicators, heading,
\* note lines
IndentedEntry(rs, j) ==
    LET prefix == Spaces(4 * Cardinality(RealAncestors(rs, j)))
    IN  prefix
        \o (IF rs[j].collapsed THEN <<91, 43, 93>> ELSE <<91, 45, 93>>)
        \o (IF HasBit(rs[j].attr, A_CURSOR) THEN <<42>> ELSE <<32>>)
        \o <<32>> \o rs[j].text \o <<LF>>
        \o (IF IsSome(rs[j].note)
            THEN LET ls == Lines(CrlfToLf(Unwrap(rs[j].note)))
                 IN  Flatten([m \in 1..Len(ls) |->
                                 prefix \o <<32, 32, 32, 32, 62, 32>> \o ls[m] \o <<LF>>],
                             1, Len(ls))
            ELSE <<>>)

(* C13: render_indented emits the heading line of a real node exactly     *)
(* when none of its real ancestors is collapsed; a collapsed node's own    *)
(* heading and note are emitted; a synthetic node emits no line and its    *)
(* children are visited.                                                   *)
C13_IndentedVisibility ==
    (mres = "printed" /\ ~plain_text) =>
        printed = Flatten([j \in 1..Len(recs) |->
                              IF Visible(recs, j) THEN IndentedEntry(recs, j) ELSE <<>>],
                          1, Len(recs))

\* the Indented rendering of a forest with a node under fillers, a collapsed
\* node with a note, and a node hidden below it
C13_Witness ==
    /\ mres = "printed" /\ ~plain_text
    /\ \E j \in 1..Len(recs) : ~Visible(recs, j)
    /\ \E j \in 1..Len(recs) : Visible(recs, j) /\ recs[j].collapsed /\ IsSome(recs[j].note)
    /\ \E j \in 1..Len(recs) :
          Visible(recs, j) /\ LevelOf(recs, j) > Cardinality(RealAncestors(recs, j))

\* the offset after the last byte of a record
RecordEnd(r) == IF IsSome(r.off_note) THEN Unwrap(r.off_note) + r.note_len ELSE r.off_delta + 2

\* the offset where record j of out began: after the prefix or the record before
RecordBegin(j) == IF j = 1 THEN SkipPrefix(buf) ELSE RecordEnd(out[j - 1])

(* C14: a located 0xFF whose window is not a header is a stray byte of the *)
(* heading text: the record start stays, so every emitted record has its   *)
(* off_text where the record began (after the prefix or the record before) *)
(* and its heading is made of all the bytes from there to its terminator.  *)
C14_StrayKeepsHeading ==
    \A j \in 1..Len(out) :
        /\ out[j].off_text = RecordBegin(j)
        /\ out[j].len_text = out[j].off_terminator - RecordBegin(j)
        /\ out[j].text = decode_heading(Slice(buf, RecordBegin(j), out[j].off_terminator))

\* the read position is at an end sentinel
AtSentinel ==
    \/ i = Len(buf) - 1 /\ At(buf, i) = 26
    \/ i + 2 < Len(buf) /\ At(buf, i) = 255 /\ At(buf, i + 1) = 255 /\ At(buf, i + 2) = 26

TerminatorsAhead == {k \in i..(Len(buf) - 1) : At(buf, k) = 255}

\* the located terminator: the first 0xFF at or after the read position
Located == CHOOSE k \in TerminatorsAhead : \A k2 \in TerminatorsAhead : k <= k2

\* the window at k is a header: marker1 is a sentinel value, marker2 is 0xFF
WindowIsHeader(k) == At(buf, k + 3) = 255 /\ At(buf, k + 2) \in {M_EXPANDED, M_COLLAPSED}

\* an iteration that locates a terminator fails with the truncated-header
\* failure exactly when fewer than n bytes are left from the terminator on;
\* otherwise the window is examined: skipped as a stray terminator, or taken
\* as a header
HeaderBoundary(n) ==
    (pres = "loop" /\ i < Len(buf) /\ ~AtSentinel /\ TerminatorsAhead # {}) =>
        LET k == Located
            avail == Len(buf) - k
        IN  /\ (pres' = "truncated record header") <=> (avail < n)
            /\ avail >= n =>
                  IF WindowIsHeader(k)
                  THEN \/ /\ pres' = "loop"
                          /\ Len(out') = Len(out) + 1
                          /\ out'[Len(out')].off_terminator = k
                       \/ /\ pres' \in {"truncated note length", "truncated note bytes",
                                        "heading too large"}
                          /\ avail >= 6
                       \/ /\ pres' = "panic"
                          /\ avail = 5
                  ELSE pres' = "loop" /\ i' = k + 1 /\ out' = out

(* C15 as stated: parse_otl fails with the truncated-header failure        *)
(* exactly when fewer than 4 bytes (terminator, attr, marker1, marker2)    *)
(* are left from the located terminator to the end of the buffer; with 4   *)
(* or more the window is examined and accepted as a header or skipped as   *)
(* a stray terminator.                                                     *)
C15_TruncatedBelowFour == [][HeaderBoundary(4)]_vars

(* C15 amended: parse_otl fails with the truncated-header failure exactly  *)
(* when fewer than 5 bytes are left from the located terminator to the end *)
(* of the buffer (fewer than 4 after the terminator); with 5 or more the   *)
(* window is examined: a window that is not a header is skipped as a stray *)
(* terminator, a header is accepted when 6 or more bytes are left, and     *)
(* with exactly 5 left the read of the second delta byte is out of bounds. *)
C15_TruncatedBelowFive == [][HeaderBoundary(5)]_vars

\* the truncated-header failure with exactly 4 bytes left from the terminator
C15_Witness ==
    /\ pres = "truncated record header"
    /\ TerminatorsAhead # {}
    /\ Len(buf) - Located = 4

\* main's default note encoding
DefaultEnc == "latin1"

\* every input buffer, decoded under the default note encoding
InitParseFair == InitParse /\ note_enc = DefaultEnc

\* the decoder with its loop running on while it can
SpecParseFair == InitParseFair /\ [][NextParse]_vars /\ WF_vars(NextParse)

\* a step of the loop returns or moves the read position forward (past the
\* located terminator on a skip, past the delta and note bytes on a record),
\* and keeps the records emitted so far
ParseProgress ==
    /\ pres = "loop" => (pres' # "loop" \/ i' > i)
    /\ (pres = "loop" /\ pres' = "loop" /\ out' = out) => i' = Located + 1
    /\ (pres = "loop" /\ Len(out') > Len(out)) =>
           /\ Len(out') = Len(out) + 1
           /\ i' = RecordEnd(out'[Len(out')])
    /\ Len(out') >= Len(out)
    /\ SubSeq(out', 1, Len(out)) = out

(* C18: the parse_otl loop terminates on every buffer: every iteration     *)
(* returns or strictly increases the read position i, and the list of      *)
(* emitted records only grows, no emitted record being lost or changed.    *)
C18_DecoderTerminates ==
    /\ [][ParseProgress]_vars
    /\ <>(pres \notin {"start", "loop"})

\* a decode that ended after a stray-terminator skip and a record
C18_Witness ==
    /\ pres = "ok"
    /\ Len(out) >= 1
    /\ out[1].off_text > SkipPrefix(buf)

(***************************************************************************)
(* serialize_tree_to_otl as a state machine: the walk, the writing of the  *)
(* bytes, and the decoding of the bytes written (as the round-trip test    *)
(* does).  The forests are those build_tree makes of records decoded under *)
(* each note encoding: deltas from -2 to +2 (fillers, clamping), the       *)
(* has-child bit, unknown bits, selection, notes.                          *)
(***************************************************************************)
MaxEncodeRecs == 3

EncodeChunks ==
    { rec_bytes(<<65>>, 0, M_EXPANDED, 0, None),
      rec_bytes(<<66>>, A_HASKIDS, M_EXPANDED, 1, None),
      rec_bytes(<<67>>, A_CURSOR + A_SIBFOLLOWS, M_COLLAPSED, 2, None),
      rec_bytes(<<68>>, A_NOTE + 83, M_EXPANDED, -1, Some(<<233, 10>>)),
      rec_bytes(<<193>>, 255, M_COLLAPSED, -2, Some(<<120>>)),
      rec_bytes(<<69>>, A_HASKIDS + A_SIBFOLLOWS, M_EXPANDED, 0, None) }

EncodeInputs == UNION {[1..n -> EncodeChunks] : n \in 0..MaxEncodeRecs}

EncodeWalk ==
    /\ eres = "start"
    /\ e_flats' = walk(e_nodes, 0, e_enc)
    /\ eres' = "walked"
    /\ UNCHANGED <<e_nodes, e_enc, buf2, recs2>>
    /\ UNCHANGED <<recs, pvars, tvars, vvars, cvars, dvars, rvars, mvars>>

EncodeWrite ==
    /\ eres = "walked"
    /\ buf2' = SerializeFlats(e_flats)
    /\ eres' = "written"
    /\ UNCHANGED <<e_nodes, e_enc, e_flats, recs2>>
    /\ UNCHANGED <<recs, pvars, tvars, vvars, cvars, dvars, rvars, mvars>>

EncodeDecode ==
    /\ eres = "written"
    /\ LET p2 == parse_otl(buf2, e_enc)
       IN  /\ recs2' = p2.recs
           /\ eres' = IF p2.res = "ok" THEN "decoded" ELSE p2.res
    /\ UNCHANGED <<e_nodes, e_enc, e_flats, buf2>>
    /\ UNCHANGED <<recs, pvars, tvars, vvars, cvars, dvars, rvars, mvars>>

InitEncode ==
    /\ e_enc \in Encodings
    /\ \E cs \in EncodeInputs : recs = parse_otl(otl_file(cs), e_enc).recs
    /\ e_nodes = build_tree(recs)
    /\ e_flats = <<>>
    /\ buf2 = <<>>
    /\ recs2 = <<>>
    /\ eres = "start"
    /\ IdleParse
    /\ IdleTree
    /\ IdleValidate
    /\ IdleCanon
    /\ IdleDiff
    /\ IdleRT
    /\ IdleMain

NextEncode == EncodeWalk \/ EncodeWrite \/ EncodeDecode

SpecEncode == InitEncode /\ [][NextEncode]_vars

\* a later real node is emitted at the level of Flat j under the same real
\* parent: a later Flat at that level with no Flat of a lower level between
EmittedSiblingFollows(j) ==
    \E k \in (j + 1)..Len(e_flats) :
        /\ e_flats[k].level = e_flats[j].level
        /\ \A m \in (j + 1)..(k - 1) : e_flats[m].level >= e_flats[j].level

(* C16: serialize_tree_to_otl sets bit 0x08 on a real node if and only if  *)
(* a later real node is emitted at the same level under the same real      *)
(* parent once the synthetic nodes are spliced out; the children of a      *)
(* filler are peers of the nodes that follow the filler.                   *)
C16_EncoderSiblingBit ==
    \A j \in 1..Len(e_flats) :
        /\ e_flats[j].level = Cardinality(RealAncestors(recs, j))
        /\ HasBit(e_flats[j].attr, A_SIBFOLLOWS) <=> EmittedSiblingFollows(j)

\* the bits serialize_tree_to_otl never writes
NeverWritten == {1, 2, A_HASKIDS, 16, 64}

(* C17: every attribute byte serialize_tree_to_otl writes has bit 0x04     *)
(* clear and no bit set outside 0x80, 0x20, 0x08, for every forest and     *)
(* note encoding, whatever the has_child flag of the source node.          *)
C17_EncoderAttrBits ==
    /\ \A j \in 1..Len(e_flats) : \A b \in NeverWritten : ~HasBit(e_flats[j].attr, b)
    /\ eres \in {"written", "decoded"} =>
          LET p2 == parse_otl(buf2, e_enc)
          IN  /\ p2.res = "ok"
              /\ Len(p2.recs) = Len(e_flats)
              /\ \A j \in 1..Len(p2.recs) :
                    /\ p2.recs[j].attr = e_flats[j].attr
                    /\ \A b \in NeverWritten : ~HasBit(p2.recs[j].attr, b)

\* the bytes are written for a forest with a node whose record had the
\* has-child bit and a node whose record had every bit set
C17_Witness ==
    /\ eres = "written"
    /\ Len(e_flats) = Len(recs)
    /\ \E j \in 1..Len(recs) : recs[j].attr = A_HASKIDS /\ recs[j].flags.has_child
    /\ \E j \in 1..Len(recs) : recs[j].attr = 255

\* the running sum of the deltas of records 1..j, not floored
RECURSIVE DeltaSum(_, _)
DeltaSum(rs, j) == IF j = 0 THEN 0 ELSE DeltaSum(rs, j - 1) + rs[j].delta

(* C19: for every forest of build_tree, the records decoded from the       *)
(* output of serialize_tree_to_otl have first delta 0, every delta at most *)
(* +1 and a running level sum never below 0, so build_tree of them makes   *)
(* no filler and never clamps.                                             *)
C19_EncoderFillerFree ==
    /\ eres \notin ClassifiedFailures \cup {"panic"}
    /\ eres = "decoded" =>
          /\ Len(recs2) = Len(recs)
          /\ recs2 # <<>> => recs2[1].delta = 0
          /\ \A j \in 1..Len(recs2) :
                /\ recs2[j].delta <= 1
                /\ DeltaSum(recs2, j) >= 0
                /\ DeltaSum(recs2, j) = LevelOf(recs2, j)
          /\ LET tree2 == build_tree(recs2)
             IN  CountSyntheticIn(tree2, Len(tree2)) = 0

\* the output is decoded for a forest with a filler, built of records of
\* which one was clamped at level 0
C19_Witness ==
    /\ eres = "decoded"
    /\ Len(recs2) = Len(recs)
    /\ Len(recs) >= 2
    /\ CountSyntheticIn(e_nodes, Len(e_nodes)) > 0
    /\ \E j \in 1..Len(recs) : LevelOf(recs, j - 1) + recs[j].delta < 0

(* C20: the diff of a record sequence with itself is empty, with repeated  *)
(* heading texts and with either value of the show-selection toggle: the   *)
(* greedy match pairs the k-th occurrence of each heading text with        *)
(* itself.                                                                 *)
C20_SelfDiffEmpty ==
    (dres \in {"loop", "done"} /\ prev = curr) =>
        /\ report = <<>>
        /\ \A a \in 1..di : matches[a] = Some(a - 1) /\ emitted[a] = <<>>
        /\ \A j \in 1..Len(prev) : used_prev[j] <=> j <= di

\* a sequence with a heading text repeated in records that differ has been
\* diffed with itself
C20_Witness ==
    /\ dres = "done"
    /\ prev = curr
    /\ di = Len(curr)
    /\ \E a, b \in 1..Len(curr) :
          a < b /\ curr[a].text = curr[b].text /\ curr[a].attr # curr[b].attr
====
